--------------------------- MODULE DatasetAccess ---------------------------
(***************************************************************************)
(* What the connector flow promises (README, "iSHARE AAI Connector         *)
(* Discovery"), with no cookie, session or message: every browser has at   *)
(* most one chosen connector; a dataset is opened in the dashboard of the  *)
(* connector chosen at that moment, and the user is asked for one only     *)
(* while there is none.                                                    *)
(***************************************************************************)
CONSTANTS Browser, Tab, BrowserOf, Dataset, Connector, None

VARIABLES
    chosen,  \* chosen[b]: the connector chosen in browser b, or None
    answer   \* answer[t]: what the last dataset clicked in tab t led to

vars == <<chosen, answer>>

Nothing == [outcome |-> "nothing", dataset |-> None, connector |-> None]
Asked(d) == [outcome |-> "asked", dataset |-> d, connector |-> None]
Opened(d, c) == [outcome |-> "opened", dataset |-> d, connector |-> c]
Confirmed(d, c) == [outcome |-> "confirmed", dataset |-> d, connector |-> c]

Init ==
    /\ chosen = [b \in Browser |-> None]
    /\ answer = [t \in Tab |-> Nothing]

\* A dataset is clicked and no connector is chosen.
Ask(t, d) ==
    /\ chosen[BrowserOf[t]] = None
    /\ answer' = [answer EXCEPT ![t] = Asked(d)]
    /\ UNCHANGED chosen

\* A dataset is clicked, or resumed, with a connector chosen.
Open(t, d) ==
    /\ chosen[BrowserOf[t]] # None
    /\ answer' = [answer EXCEPT ![t] = Opened(d, chosen[BrowserOf[t]])]
    /\ UNCHANGED chosen

\* A connector is chosen in a tab, to resume a dataset or for later, and the
\* choice is confirmed there.
Choose(t, c) ==
    /\ chosen' = [chosen EXCEPT ![BrowserOf[t]] = c]
    /\ \E d \in Dataset \cup {None} : answer' = [answer EXCEPT ![t] = Confirmed(d, c)]

\* The tab shows something else.
Leave(t) ==
    /\ answer' = [answer EXCEPT ![t] = Nothing]
    /\ UNCHANGED chosen

\* The sessions of some browsers end, and requests of some tabs with them.
Forget(B, T) ==
    /\ chosen' = [b \in Browser |-> IF b \in B THEN None ELSE chosen[b]]
    /\ answer' = [t \in Tab |-> IF t \in T THEN Nothing ELSE answer[t]]

Next ==
    \/ \E t \in Tab :
          \/ \E d \in Dataset : Ask(t, d) \/ Open(t, d)
          \/ \E c \in Connector : Choose(t, c)
          \/ Leave(t)
    \/ \E B \in SUBSET Browser, T \in SUBSET Tab : Forget(B, T)

Spec == Init /\ [][Next]_vars
=============================================================================
