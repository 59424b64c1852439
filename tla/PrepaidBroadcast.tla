-------------------------- MODULE PrepaidBroadcast --------------------------
(***************************************************************************)
(* What a broadcast promises about money, without batches, cost rows,      *)
(* delivery reports or places of a processor.  Credits are held before the *)
(* first message goes out, and none goes out without them.  They are       *)
(* settled once, when nothing is on its way: given back, or charged after  *)
(* the last message was tried, with what the pricing model asks for.       *)
(***************************************************************************)
EXTENDS Naturals, FiniteSets

CONSTANTS
    Recipients,
    BaseUnit,  \* credits per recipient on top of the Meta cost
    Models     \* pricing models that are considered

VARIABLES
    model,     \* pricing model of the broadcast
    credit,    \* "none", "reserved", "committed" or "released"
    charge,    \* credits charged
    send,      \* "todo", "posting", "sent" or "failed"
    fate,      \* what Meta made of a message: "none", "paid", "free", "failed"
    presumed   \* messages that were called free before Meta had said so

vars == <<model, credit, charge, send, fate, presumed>>

With(place) == {m \in Recipients : send[m] = place}
Billed == {m \in With("sent") : fate[m] = "paid"}

Init ==
    /\ model \in Models
    /\ credit = "none"
    /\ charge = 0
    /\ send = [m \in Recipients |-> "todo"]
    /\ fate = [m \in Recipients |-> "none"]
    /\ presumed = {}

----------------------------------------------------------------------------
(* Messages *)

\* All of S go from one place to the next.
Move(S, next) ==
    /\ send' = [m \in Recipients |-> IF m \in S THEN next ELSE send[m]]
    /\ UNCHANGED <<model, credit, charge, fate>>

Post(S) ==
    /\ credit = "reserved"
    /\ S \subseteq With("todo")
    /\ Move(S, "posting")
    /\ UNCHANGED presumed

Take(m) ==
    /\ send[m] = "posting"
    /\ fate[m] = "none"
    /\ \E f \in {"paid", "free", "failed"} : fate' = [fate EXCEPT ![m] = f]
    /\ UNCHANGED <<model, credit, charge, send, presumed>>

\* Meta answers; the local rules may find that the message is free.
Answer(m) ==
    /\ send[m] = "posting"
    /\ fate[m] # "none"
    /\ Move({m}, "sent")
    /\ presumed' \in {presumed, presumed \cup {m}}

\* Meta refuses, its answers are lost, or the process dies.
Fail(S) ==
    /\ S \subseteq With("posting")
    /\ Move(S, "failed")
    /\ UNCHANGED presumed

\* An early report on a message of which nothing is known.
Presume(m) ==
    /\ fate[m] # "none"
    /\ presumed' = presumed \cup {m}
    /\ UNCHANGED <<model, credit, charge, send, fate>>

----------------------------------------------------------------------------
(* Credits *)

Hold ==
    /\ credit = "none"
    /\ credit' = "reserved"
    /\ UNCHANGED <<model, charge, send, fate, presumed>>

\* What the pricing model may ask for.
Fair(c) ==
    CASE model = "fixed" -> c = Cardinality(With("sent"))
      [] model = "meta_like" -> c <= Cardinality(With("sent"))
      [] OTHER ->
           LET base == BaseUnit * Cardinality(Recipients) IN
           /\ c <= base + Cardinality(Billed)
           /\ c >= base + Cardinality(Billed \ presumed)

Charge ==
    /\ credit = "reserved"
    /\ With("todo") = {} /\ With("posting") = {} /\ With("sent") # {}
    /\ credit' = "committed"
    /\ charge' \in Nat \ {0}
    /\ Fair(charge')
    /\ UNCHANGED <<model, send, fate, presumed>>

GiveBack ==
    /\ credit = "reserved"
    /\ With("posting") = {}
    /\ credit' = "released"
    /\ UNCHANGED <<model, charge, send, fate, presumed>>

Next ==
    \/ Hold \/ Charge \/ GiveBack
    \/ \E S \in SUBSET Recipients : Post(S) \/ Fail(S)
    \/ \E m \in Recipients : Take(m) \/ Answer(m) \/ Presume(m)

Spec == Init /\ [][Next]_vars

=============================================================================
