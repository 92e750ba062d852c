---------------------------- MODULE MCSearchBar ----------------------------
(***************************************************************************)
(* Instances of SearchBar for TLC: a text, the same text with a sign that  *)
(* is cleaned away, and nothing; an author of two words among the values.  *)
(***************************************************************************)
EXTENDS SearchBar, TLC

TextClean == "" :> "*" @@ "dna" :> "dna" @@ "dna#" :> "dna"

WordOrders == "Jan Kot" :> {"Jan Kot", "Kot Jan"} @@ "Kot Jan" :> {"Jan Kot", "Kot Jan"}

TwoBookmarks ==
    {Plain(All, "dna"),
     [at |-> "publication", q |-> Star, standard |-> FALSE, exact |-> TRUE,
      tags |-> {[kind |-> "author", value |-> "Jan Kot"], [kind |-> "doi", value |-> "Kot Jan"]},
      radios |-> [AllAnd EXCEPT !["author"] = Or]]}
=============================================================================
