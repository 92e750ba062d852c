--------------------------- MODULE ConnectorAccess ---------------------------
(***************************************************************************)
(* How the sessions, cookies and messages of ConnectorFlow implement       *)
(* DatasetAccess, for browsers of a single tab.                            *)
(***************************************************************************)
EXTENDS ConnectorFlow

TabOf(b) == CHOOSE t \in Tab : BrowserOf[t] = b

\* The session in effect is that of the request under way, else the one that an
\* answer is about to set, else that of the jar.
SessionFrom(m, cookie) ==
    IF m.kind \in Requests \/ m.cookie # None THEN m.cookie ELSE cookie
ConnectorIn(s) == IF s \in live THEN store[s].connector ELSE None
Chosen == [b \in Browser |-> ConnectorIn(SessionFrom(net[TabOf(b)], jar[b]))]

Outcome(outcome, d, c) == [outcome |-> outcome, dataset |-> d, connector |-> c]

\* What a page stands for, and what an answer does that will lead to one. A
\* request of /navigate, or its failure, has not led to anything.
PageOutcome(page) ==
    CASE page.at = "idps" /\ page.res # None -> Outcome("asked", page.res, None)
      [] page.at = "dashboard" -> Outcome("opened", page.res, page.connector)
      [] OTHER -> Outcome("nothing", None, None)
Led(m, page) ==
    CASE m.kind = "chosen" -> Outcome("confirmed", m.res, m.connector)
      [] m.kind = "prompt" -> Outcome("asked", m.res, None)
      [] m.kind = "open" -> Outcome("opened", m.res, m.connector)
      [] m.kind \in {"navigate", "denied"} -> Outcome("nothing", None, None)
      [] OTHER -> PageOutcome(page)

Leads == [t \in Tab |-> Led(net[t], tab[t])]

Access == INSTANCE DatasetAccess WITH chosen <- Chosen, answer <- Leads

\* With one tab a browser, the sessions and the cookie implement the promise
\* of the README: a dataset is never opened in the dashboard of a connector
\* that is not the one chosen last, and nobody is asked twice.
ImplementsAccess == Access!Spec
=============================================================================
