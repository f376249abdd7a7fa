---------------------------- MODULE ContractLife ----------------------------
(***************************************************************************)
(* What the money path promises of the contracts it opens, whatever        *)
(* crashes, holds, restarts and venue events come in between: a contract   *)
(* is opened at most once and only within the caps, stays unresolved until *)
(* it is booked, and is booked at most once; an unresolved contract is     *)
(* given up only when nothing is open at the venue any more.               *)
(***************************************************************************)
EXTENDS Integers, FiniteSets

CONSTANTS
  Orders, AssetOf, MaxConcurrent

VARIABLES
  venue,   \* each contract at the venue: "none", "open" or "closed"
  out,     \* contracts opened and unresolved
  booked   \* trade records of each contract

\* The caps leave room for one more contract.
Room(o) ==
  /\ Cardinality(out \cup {o}) <= MaxConcurrent
  /\ \A p \in out : AssetOf[p] # AssetOf[o]

Open(o) ==
  /\ venue[o] = "none" /\ Room(o)
  /\ \E s \in {"open", "closed"} : venue' = [venue EXCEPT ![o] = s]
  /\ out' = out \cup {o}
  /\ UNCHANGED booked

End(o) ==
  /\ venue[o] # "none"
  /\ venue' = [venue EXCEPT ![o] = "closed"]
  /\ UNCHANGED <<out, booked>>

\* Contracts of another session are booked too, without being counted.
Book(o) ==
  /\ venue[o] # "none" /\ booked[o] = 0
  /\ booked' = [booked EXCEPT ![o] = 1]
  /\ out' = out \ {o}
  /\ UNCHANGED venue

GiveUp ==
  /\ \A o \in Orders : venue[o] # "open"
  /\ out' = {}
  /\ UNCHANGED <<venue, booked>>

Init ==
  /\ venue \in [Orders -> {"none", "open"}]
  /\ out = {} /\ booked = [o \in Orders |-> 0]

Next == GiveUp \/ \E o \in Orders : Open(o) \/ End(o) \/ Book(o)

Spec == Init /\ [][Next]_<<venue, out, booked>>

=============================================================================
