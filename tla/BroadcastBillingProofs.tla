----------------------- MODULE BroadcastBillingProofs -----------------------
(***************************************************************************)
(* Proofs about BroadcastBilling for every number of recipients, batch     *)
(* size, base charge and number of faults.                                 *)
(***************************************************************************)
EXTENDS BroadcastBilling, FiniteSetTheorems, TLAPS

\* Places before the reservation is settled or handed over, and after.
Early == {"reserved", "scheduled", "posting", "counting", "waiting", "settling"}
Late == {"finalizing", "completing", "catching", "failing", "done"}

\* The places of the processor and the state of the reservation.
Phase ==
    /\ pc = "idle" => usage = "none" /\ ~attached
    /\ pc \in Early => usage = "reserved" /\ ~attached
    /\ Posting # {} => pc = "posting"
    /\ pc = "settling" \/ attached => sentCount = Cardinality(Sent)
    /\ attached => model = "meta_cost_plus_credits"

\* A cost row agrees with what became of the message.
RowOK(m) ==
    /\ amount[m] => fate[m] = "paid"
    /\ linked[m] => send[m] = "sent"
    /\ send[m] = "sent" => fate[m] # "none"
    /\ cost[m] = "not_charged" /\ m \notin presumed => fate[m] \in {"free", "failed"}
    /\ cost[m] = "final" /\ m \notin presumed => amount[m]

Rows == \A m \in Recipients : RowOK(m)

\* The conditions for a settlement are met, and nobody has settled.
Overdue == usage = "reserved" /\ Due(cost, linked)

\* The settlement of the job has been left to the statuses, if it was left.
HandedOver == pc = "completing" \/ job = "completed"

\* What is overdue has a report that is still to be handled.
Remembered ==
    /\ job = "completed" => pc = "done"
    /\ attached => usage # "none" /\ Sent # {}
    /\ pc = "finalizing" => attached
    /\ HandedOver => usage \in Settled \/ attached
    /\ HandedOver /\ Overdue => \E m \in Sent : ~told[m]

-----------------------------------------------------------------------------
(* Counting *)

\* A set of recipients has a size.
LEMMA SizeOf ==
    ASSUME NEW S \in SUBSET Recipients
    PROVE  IsFiniteSet(S) /\ Cardinality(S) \in Nat
  BY BroadcastConstants, FS_Subset, FS_CardinalityType

\* The price is a number of credits.
LEMMA PriceType ==
    ASSUME NEW a
    PROVE  Price(a) \in Nat
<1>1. Cardinality(Recipients) \in Nat
  BY SizeOf
<1>2. Cardinality({m \in Recipients : linked[m] /\ a[m]}) \in Nat
  BY SizeOf
<1> QED
  BY <1>1, <1>2, BroadcastConstants DEF Price

\* Every outcome of a reservation is well-typed, and a settled one stays.
LEMMA CommitShape ==
    ASSUME TypeOK, NEW credits \in Nat, Commit(credits)
    PROVE  /\ usage' \in {"none", "reserved"} \cup Settled
           /\ charge' \in Nat
           /\ usage \in Settled => usage' = usage /\ charge' = charge
           /\ usage' = "committed" /\ usage # "committed" => charge' = credits
           /\ usage # "reserved" => usage' = usage
  BY DEF TypeOK, Commit, Release, Settled

\* The same of a settlement by status, which needs the conditions of Due.
LEMMA TryFinalizeShape ==
    ASSUME TypeOK, NEW c, NEW a, TryFinalize(c, a)
    PROVE  /\ usage' \in {"none", "reserved"} \cup Settled
           /\ charge' \in Nat
           /\ usage \in Settled => usage' = usage /\ charge' = charge
           /\ (usage' = usage /\ charge' = charge) \/ Due(c, linked)
           /\ usage' = "committed" /\ usage # "committed" => charge' = Price(a)
<1>1. CASE Due(c, linked)
  <2>1. Commit(Price(a))
    BY <1>1 DEF TryFinalize
  <2>2. Price(a) \in Nat
    BY PriceType
  <2> QED
    BY <1>1, <2>1, <2>2, CommitShape
<1>2. CASE ~Due(c, linked)
  BY <1>2 DEF TryFinalize, TypeOK, Settled
<1> QED
  BY <1>1, <1>2

\* What a record leaves in a cost row.
LEMMA RecordedType ==
    ASSUME TypeOK, NEW m \in Recipients, NEW e \in Estimates
    PROVE  Recorded(m, e) \in Costs
  BY BroadcastConstants DEF Recorded, Costs

-----------------------------------------------------------------------------
(* Types *)

\* Actions of the processor keep the types.
LEMMA ProcessorTypes ==
    ASSUME TypeOK, Processor
    PROVE  TypeOK'
<1> USE DEF TypeOK, Places, Running
<1>1. CASE Start
  BY <1>1 DEF Start, Post, Throw, tables, meta
<1>2. CASE Resume
  BY <1>2 DEF Resume, Post, tables, meta
<1>3. CASE Count
  <2>1. Cardinality(Sent) \in Nat
    BY SizeOf DEF Sent
  <2> QED
    BY <1>3, <2>1 DEF Count, Throw, tables, meta
<1>4. CASE ReleaseAll
  BY <1>4 DEF ReleaseAll, Release, Settled, meta
<1>5. CASE ChargeNow
  <2>1. PICK q \in Billable : Commit(q)
    BY <1>5 DEF ChargeNow
  <2>2. q \in Nat
    <3>1. Cardinality(Sent) \in Nat
      BY SizeOf DEF Sent
    <3> QED
      BY <2>1, <3>1 DEF Billable
  <2>3. usage' \in {"none", "reserved"} \cup Settled /\ charge' \in Nat
    BY <2>1, <2>2, CommitShape
  <2> QED
    BY <1>5, <2>3 DEF ChargeNow, meta
<1>6. CASE Defer
  BY <1>6 DEF Defer, meta
<1>7. CASE Finalize
  <2>1. usage' \in {"none", "reserved"} \cup Settled /\ charge' \in Nat
    BY <1>7, TryFinalizeShape DEF Finalize
  <2> QED
    BY <1>7, <2>1 DEF Finalize, meta
<1>8. CASE Complete
  <2>1. Cardinality(Sent) \in Nat
    BY SizeOf DEF Sent
  <2> QED
    BY <1>8, <2>1 DEF Complete, meta
<1>9. CASE SettleFails
  BY <1>9 DEF SettleFails, Throw, tables, meta
<1>10. CASE Catch
  BY <1>10 DEF Catch, Release, Settled, meta
<1>11. CASE FailJob
  BY <1>11 DEF FailJob, meta
<1> QED
  BY <1>1, <1>2, <1>3, <1>4, <1>5, <1>6, <1>7, <1>8, <1>9, <1>10, <1>11
     DEF Processor

\* Answers and reports of one message keep the types.
LEMMA MessageTypes ==
    ASSUME TypeOK, NEW m \in Recipients,
           \/ MetaTakes(m) \/ SentOk(m) \/ SendFailed(m)
           \/ ReportSent(m) \/ Report(m) \/ BreakReport(m)
    PROVE  TypeOK'
<1> USE DEF TypeOK, Places, Running
<1>1. CASE MetaTakes(m)
  BY <1>1 DEF MetaTakes, tables, Fates
<1>2. CASE SentOk(m)
  <2>1. CASE UNCHANGED <<cost, amount, presumed, linked>>
    BY <1>2, <2>1 DEF SentOk, AfterAnswer, meta
  <2>2. CASE \E e \in Estimates :
               /\ cost' = [cost EXCEPT ![m] = Recorded(m, e)]
               /\ amount' = [amount EXCEPT ![m] = @ /\ e # "not_charged"]
               /\ presumed' = IF e = "not_charged" THEN presumed \cup {m}
                                                   ELSE presumed
               /\ linked' = [linked EXCEPT ![m] = TRUE]
    <3>1. /\ cost' \in [Recipients -> Costs]
          /\ amount' \in [Recipients -> BOOLEAN]
          /\ presumed' \subseteq Recipients
          /\ linked' \in [Recipients -> BOOLEAN]
      BY <2>2, RecordedType
    <3> QED
      BY <1>2, <3>1 DEF SentOk, AfterAnswer, meta
  <2> QED
    BY <1>2, <2>1, <2>2 DEF SentOk
<1>3. CASE SendFailed(m)
  BY <1>3 DEF SendFailed, AfterAnswer, tables, meta
<1>4. CASE ReportSent(m)
  <2>1. PICK row \in RowFor(m) :
          LET c == [cost EXCEPT ![m] = row] IN
          /\ cost' = c
          /\ presumed' = IF cost[m] = "none" /\ row = "not_charged"
                         THEN presumed \cup {m} ELSE presumed
          /\ IF linked[m] THEN TryFinalize(c, amount)
                          ELSE UNCHANGED <<usage, charge>>
    BY <1>4 DEF ReportSent
  <2>2. row \in Costs
    BY DEF RowFor, Costs
  <2>3. usage' \in {"none", "reserved"} \cup Settled /\ charge' \in Nat
    BY <2>1, TryFinalizeShape
  <2>4. cost' \in [Recipients -> Costs] /\ presumed' \subseteq Recipients
    BY <2>1, <2>2
  <2> QED
    BY <1>4, <2>3, <2>4 DEF ReportSent, meta
<1>5. CASE Report(m)
  <2>1. PICK v \in Priced(m) :
          LET final == cost[m] = "final"
              c == [cost EXCEPT ![m] = IF final THEN @ ELSE v]
              a == [amount EXCEPT ![m] = IF final THEN @ ELSE v = "final"]
          IN  /\ cost' = c
              /\ amount' = a
              /\ IF linked[m] THEN TryFinalize(c, a)
                              ELSE UNCHANGED <<usage, charge>>
    BY <1>5 DEF Report
  <2>2. v \in Costs
    BY BroadcastConstants DEF Priced, Costs
  <2>3. usage' \in {"none", "reserved"} \cup Settled /\ charge' \in Nat
    BY <2>1, TryFinalizeShape
  <2>4. cost' \in [Recipients -> Costs] /\ amount' \in [Recipients -> BOOLEAN]
    BY <2>1, <2>2
  <2> QED
    BY <1>5, <2>3, <2>4 DEF Report
<1>6. CASE BreakReport(m)
  <2>1. cost' \in [Recipients -> Costs] /\ amount' \in [Recipients -> BOOLEAN]
    <3>1. \A v \in Priced(m) : v \in Costs
      BY BroadcastConstants DEF Priced, Costs
    <3>2. \/ UNCHANGED <<cost, amount>>
          \/ \E v \in Priced(m) :
                /\ cost' = [cost EXCEPT ![m] = v]
                /\ amount' = [amount EXCEPT ![m] = v = "final"]
      BY <1>6 DEF BreakReport
    <3> QED
      BY <3>1, <3>2
  <2>2. pc' \in Places /\ send' \in [Recipients -> {"todo", "posting", "sent", "failed"}]
    BY <1>6 DEF BreakReport, Stop
  <2>3. unheard' \subseteq Recipients
    BY <1>6 DEF BreakReport
  <2>4. told' \in [Recipients -> BOOLEAN] /\ faults' \in Nat
    BY <1>6 DEF BreakReport
  <2>5. UNCHANGED <<model, job, sentCount, usage, attached, charge, linked, fate,
                    presumed>>
    BY <1>6 DEF BreakReport
  <2> QED
    BY <2>1, <2>2, <2>3, <2>4, <2>5
<1> QED
  BY <1>1, <1>2, <1>3, <1>4, <1>5, <1>6

\* The initial states have the types and every step keeps them.
LEMMA TypeStep ==
    /\ Init => TypeOK
    /\ TypeOK /\ [Next]_vars => TypeOK'
<1>1. ASSUME Init
      PROVE  TypeOK
  <2>1. model \in AllModels
    BY <1>1, BroadcastConstants DEF Init
  <2> QED
    BY <1>1, <2>1 DEF Init, TypeOK, Places, Costs
<1>2. ASSUME TypeOK, [Next]_vars
      PROVE  TypeOK'
  <2>1. CASE Reserve
    BY <1>2, <2>1 DEF Reserve, TypeOK, Places, Running, meta
  <2>2. CASE CreateJob
    BY <1>2, <2>2 DEF CreateJob, Release, TypeOK, Places, Running, Settled, meta
  <2>3. CASE Processor
    BY <1>2, <2>3, ProcessorTypes
  <2>4. CASE Crash
    BY <1>2, <2>4 DEF Crash, Stop, TypeOK, Places, Running, tables, meta
  <2>5. CASE \E m \in Recipients :
               \/ MetaTakes(m) \/ SentOk(m) \/ SendFailed(m)
               \/ ReportSent(m) \/ Report(m) \/ BreakReport(m)
    BY <1>2, <2>5, MessageTypes
  <2>6. CASE UNCHANGED vars
    BY <1>2, <2>6 DEF TypeOK, vars, tables, meta
  <2> QED
    BY <1>2, <2>1, <2>2, <2>3, <2>4, <2>5, <2>6 DEF Next
<1> QED
  BY <1>1, <1>2

\* Type correctness of the broadcast and its bill.
THEOREM TypeCorrect == Spec => []TypeOK
  BY TypeStep, PTL DEF Spec

-----------------------------------------------------------------------------
(* Finality *)

\* No step changes a settled reservation or its charge.
LEMMA SettledStays ==
    ASSUME TypeOK, [Next]_vars, usage \in Settled
    PROVE  usage' = usage /\ charge' = charge
<1> USE DEF Settled
<1>1. CASE Reserve
  BY <1>1 DEF Reserve
<1>2. CASE CreateJob
  BY <1>2 DEF CreateJob, Release
<1>3. CASE Processor
  <2>1. CASE ChargeNow
    <3>1. PICK q \in Billable : Commit(q)
      BY <2>1 DEF ChargeNow
    <3> QED
      BY <3>1 DEF Commit, Release
  <2>2. CASE Finalize
    BY <2>2, TryFinalizeShape DEF Finalize
  <2>3. CASE ReleaseAll \/ Catch
    BY <2>3 DEF ReleaseAll, Catch, Release
  <2>4. CASE Start \/ Resume \/ Count \/ Defer \/ Complete \/ SettleFails \/ FailJob
    BY <2>4 DEF Start, Resume, Count, Defer, Complete, SettleFails, FailJob,
                Throw, tables
  <2> QED
    BY <1>3, <2>1, <2>2, <2>3, <2>4 DEF Processor
<1>4. CASE Crash
  BY <1>4 DEF Crash, tables
<1>5. ASSUME NEW m \in Recipients,
             \/ MetaTakes(m) \/ SentOk(m) \/ SendFailed(m)
             \/ ReportSent(m) \/ Report(m) \/ BreakReport(m)
      PROVE  usage' = usage /\ charge' = charge
  <2>1. CASE ReportSent(m)
    BY <2>1, TryFinalizeShape DEF ReportSent
  <2>2. CASE Report(m)
    BY <2>2, TryFinalizeShape DEF Report
  <2>3. CASE MetaTakes(m) \/ SentOk(m) \/ SendFailed(m) \/ BreakReport(m)
    BY <2>3 DEF MetaTakes, SentOk, SendFailed, BreakReport, tables
  <2> QED
    BY <1>5, <2>1, <2>2, <2>3
<1>6. CASE UNCHANGED vars
  BY <1>6 DEF vars, tables
<1> QED
  BY <1>1, <1>2, <1>3, <1>4, <1>5, <1>6 DEF Next

\* A settled reservation and its charge never change.
THEOREM SettlementsAreFinal == Spec => SettledIsFinal
<1>1. TypeOK /\ [Next]_vars
        => [(usage \in Settled) => usage' = usage /\ charge' = charge]_vars
  BY SettledStays
<1> QED
  BY <1>1, TypeStep, PTL DEF Spec, SettledIsFinal

-----------------------------------------------------------------------------
(* Phases *)

\* A message that Meta has taken or reported keeps the phase.
LEMMA PhaseMessages ==
    ASSUME TypeOK, Phase, NEW m \in Recipients,
           \/ MetaTakes(m) \/ SentOk(m) \/ SendFailed(m)
           \/ ReportSent(m) \/ Report(m) \/ BreakReport(m)
    PROVE  Phase'
<1> USE DEF Phase, Early
<1>1. CASE MetaTakes(m)
  BY <1>1 DEF MetaTakes, tables, Posting, Sent
<1>2. CASE SentOk(m) \/ SendFailed(m)
  <2>1. /\ pc = "posting"
        /\ usage' = usage /\ attached' = attached /\ model' = model
        /\ pc' = IF Posting = {m} THEN "counting" ELSE pc
        /\ \/ send' = [send EXCEPT ![m] = "sent"]
           \/ send' = [send EXCEPT ![m] = "failed"]
    BY <1>2 DEF SentOk, SendFailed, AfterAnswer, Posting, tables
  <2>2. Posting' = Posting \ {m}
    BY <2>1 DEF Posting, TypeOK
  <2> QED
    BY <2>1, <2>2
<1>3. CASE ReportSent(m) \/ Report(m)
  <2>1. /\ UNCHANGED <<pc, send, sentCount, attached, model>>
        /\ pc \notin Running
    BY <1>3 DEF ReportSent, Report, Yielded
  <2>2. pc \in Early \cup {"idle"} => usage' = usage
    <3>1. pc \in Early \cup {"idle"} => ~attached
      OBVIOUS
    <3>2. \/ usage' = usage
          \/ \E c : Due(c, linked)
      BY <1>3, TryFinalizeShape DEF ReportSent, Report
    <3> QED
      BY <3>1, <3>2 DEF Due
  <2> QED
    BY <2>1, <2>2 DEF Posting, Sent
<1>4. CASE BreakReport(m)
  <2>1. UNCHANGED <<sentCount, usage, attached, model>>
    BY <1>4 DEF BreakReport
  <2>2. CASE Stop
    <3>1. pc' = "done" /\ Posting' = {} /\ Sent' = Sent
      BY <2>2 DEF Stop, Posting, Sent, TypeOK
    <3> QED
      BY <2>1, <3>1
  <2>3. CASE UNCHANGED <<pc, send>>
    <3>1. Posting' = Posting /\ Sent' = Sent
      BY <2>3 DEF Posting, Sent
    <3> QED
      BY <2>1, <2>3, <3>1
  <2> QED
    BY <1>4, <2>2, <2>3 DEF BreakReport
<1> QED
  BY <1>1, <1>2, <1>3, <1>4

\* The processor keeps the phase.
LEMMA PhaseProcessor ==
    ASSUME TypeOK, Phase, Processor
    PROVE  Phase'
<1> USE DEF Phase, Early
<1>1. CASE Start \/ Resume
  <2>1. pc \in {"scheduled", "waiting"} /\ Posting = {}
    BY <1>1 DEF Start, Resume
  <2>2. /\ UNCHANGED <<usage, attached, model, sentCount>>
        /\ pc' = "posting" \/ (pc' = "catching" /\ UNCHANGED send)
    BY <1>1 DEF Start, Resume, Throw, tables
  <2>3. pc' = "posting" \/ Posting' = {}
    BY <2>1, <2>2 DEF Posting
  <2>4. usage' = "reserved" /\ ~attached'
    BY <2>1, <2>2
  <2> QED
    BY <2>2, <2>3, <2>4
<1>2. CASE Count
  BY <1>2 DEF Count, Throw, Posting, Sent, tables
<1>3. CASE ReleaseAll \/ ChargeNow
  BY <1>3 DEF ReleaseAll, ChargeNow, Posting, Sent
<1>4. CASE Defer
  BY <1>4 DEF Defer, Posting, Sent
<1>5. CASE Finalize
  BY <1>5 DEF Finalize, Posting, Sent
<1>6. CASE Complete
  BY <1>6 DEF Complete, Posting, Sent
<1>7. CASE SettleFails
  BY <1>7 DEF SettleFails, Throw, tables, Posting, Sent
<1>8. CASE Catch \/ FailJob
  BY <1>8 DEF Catch, FailJob, Posting, Sent
<1> QED
  BY <1>1, <1>2, <1>3, <1>4, <1>5, <1>6, <1>7, <1>8 DEF Processor

\* Phase is inductive relative to the types.
LEMMA PhaseStep ==
    /\ Init => Phase
    /\ TypeOK /\ Phase /\ [Next]_vars => Phase'
<1>1. Init => Phase
  BY DEF Init, Phase, Early, Posting
<1>2. ASSUME TypeOK, Phase, [Next]_vars
      PROVE  Phase'
  <2>1. CASE Reserve
    BY <1>2, <2>1 DEF Reserve, Phase, Early, Posting, Sent
  <2>2. CASE CreateJob
    BY <1>2, <2>2 DEF CreateJob, Phase, Early, Posting, Sent
  <2>3. CASE Processor
    BY <1>2, <2>3, PhaseProcessor
  <2>4. CASE Crash
    <3>1. Posting' = {} /\ Sent' = Sent
      BY <1>2, <2>4 DEF Crash, Stop, Posting, Sent, TypeOK
    <3> QED
      BY <1>2, <2>4, <3>1 DEF Crash, Stop, tables, Phase, Early
  <2>5. CASE \E m \in Recipients :
               \/ MetaTakes(m) \/ SentOk(m) \/ SendFailed(m)
               \/ ReportSent(m) \/ Report(m) \/ BreakReport(m)
    BY <1>2, <2>5, PhaseMessages
  <2>6. CASE UNCHANGED vars
    BY <1>2, <2>6 DEF vars, tables, Phase, Early, Posting, Sent
  <2> QED
    BY <1>2, <2>1, <2>2, <2>3, <2>4, <2>5, <2>6 DEF Next
<1> QED
  BY <1>1, <1>2

\* A message is on its way only while the reservation is held.
THEOREM SendingIsAlwaysCovered == Spec => []SendingIsCovered
<1>1. Phase => SendingIsCovered
  BY DEF Phase, Early, SendingIsCovered
<1> QED
  BY <1>1, TypeStep, PhaseStep, PTL DEF Spec

-----------------------------------------------------------------------------
(* Cost rows *)

\* Answers and reports keep the rows true.
LEMMA RowsMessages ==
    ASSUME TypeOK, Rows, NEW m \in Recipients,
           \/ MetaTakes(m) \/ SentOk(m) \/ SendFailed(m)
           \/ ReportSent(m) \/ Report(m) \/ BreakReport(m),
           NEW k \in Recipients
    PROVE  RowOK(k)'
<1>0. RowOK(k)
  BY DEF Rows
<1>1. CASE MetaTakes(m)
  BY <1>0, <1>1 DEF MetaTakes, tables, RowOK, TypeOK
<1>2. CASE SentOk(m)
  <2>1. /\ send' = [send EXCEPT ![m] = "sent"]
        /\ fate' = fate
        /\ fate[m] # "none" /\ send[m] = "posting"
    BY <1>2 DEF SentOk, meta
  <2>2. CASE UNCHANGED <<cost, amount, presumed, linked>>
    BY <1>0, <2>1, <2>2 DEF RowOK, TypeOK
  <2>3. CASE \E e \in Estimates :
               /\ cost' = [cost EXCEPT ![m] = Recorded(m, e)]
               /\ amount' = [amount EXCEPT ![m] = @ /\ e # "not_charged"]
               /\ presumed' = IF e = "not_charged" THEN presumed \cup {m}
                                                   ELSE presumed
               /\ linked' = [linked EXCEPT ![m] = TRUE]
    <3>1. PICK e \in Estimates :
               /\ cost' = [cost EXCEPT ![m] = Recorded(m, e)]
               /\ amount' = [amount EXCEPT ![m] = @ /\ e # "not_charged"]
               /\ presumed' = IF e = "not_charged" THEN presumed \cup {m}
                                                   ELSE presumed
               /\ linked' = [linked EXCEPT ![m] = TRUE]
      BY <2>3
    <3>2. e \in {"pending", "not_charged", "rate_missing"}
      BY BroadcastConstants
    <3>3. CASE k = m
      <4>1. /\ cost'[m] = Recorded(m, e)
            /\ amount'[m] = (amount[m] /\ e # "not_charged")
            /\ linked'[m] /\ send'[m] = "sent"
        BY <2>1, <3>1 DEF TypeOK
      <4> QED
        BY <1>0, <2>1, <3>1, <3>2, <3>3, <4>1 DEF RowOK, Recorded
    <3>4. CASE k # m
      BY <1>0, <2>1, <3>1, <3>4 DEF RowOK, TypeOK
    <3> QED
      BY <3>3, <3>4
  <2> QED
    BY <1>2, <2>2, <2>3 DEF SentOk
<1>3. CASE SendFailed(m)
  BY <1>0, <1>3 DEF SendFailed, tables, meta, RowOK, TypeOK
<1>4. CASE ReportSent(m)
  <2>1. PICK row \in RowFor(m) :
          /\ cost' = [cost EXCEPT ![m] = row]
          /\ presumed' = IF cost[m] = "none" /\ row = "not_charged"
                         THEN presumed \cup {m} ELSE presumed
    BY <1>4 DEF ReportSent
  <2>2. UNCHANGED <<linked, amount, send, fate>>
    BY <1>4 DEF ReportSent, meta
  <2> QED
    BY <1>0, <2>1, <2>2 DEF RowFor, RowOK, TypeOK
<1>5. CASE Report(m)
  <2>1. PICK v \in Priced(m) :
          /\ cost' = [cost EXCEPT ![m] = IF cost[m] = "final" THEN @ ELSE v]
          /\ amount' = [amount EXCEPT ![m] = IF cost[m] = "final" THEN @
                                             ELSE v = "final"]
    BY <1>5 DEF Report
  <2>2. UNCHANGED <<linked, send, fate, presumed>> /\ fate[m] # "none"
    BY <1>5 DEF Report
  <2>3. (v \in {"final", "rate_missing"} /\ fate[m] = "paid") \/ v = "not_charged"
    BY BroadcastConstants DEF Priced
  <2>4. v = "not_charged" => fate[m] \in {"free", "failed"}
    BY <2>2, BroadcastConstants DEF Priced, TypeOK, Fates
  <2> QED
    BY <1>0, <2>1, <2>2, <2>3, <2>4 DEF RowOK, TypeOK
<1>6. CASE BreakReport(m)
  <2>1. UNCHANGED <<linked, fate, presumed>> /\ fate[m] # "none"
    BY <1>6 DEF BreakReport
  <2>2. send'[k] = "sent" <=> send[k] = "sent"
    BY <1>6 DEF BreakReport, Stop
  <2>3. CASE UNCHANGED <<cost, amount>>
    BY <1>0, <2>1, <2>2, <2>3 DEF RowOK
  <2>4. CASE \E v \in Priced(m) :
               /\ cost' = [cost EXCEPT ![m] = v]
               /\ amount' = [amount EXCEPT ![m] = v = "final"]
    <3>1. PICK v \in Priced(m) :
            /\ cost' = [cost EXCEPT ![m] = v]
            /\ amount' = [amount EXCEPT ![m] = v = "final"]
      BY <2>4
    <3>2. (v \in {"final", "rate_missing"} /\ fate[m] = "paid") \/ v = "not_charged"
      BY BroadcastConstants DEF Priced
    <3>3. v = "not_charged" => fate[m] \in {"free", "failed"}
      BY <2>1, BroadcastConstants DEF Priced, TypeOK, Fates
    <3> QED
      BY <1>0, <2>1, <2>2, <3>1, <3>2, <3>3 DEF RowOK, TypeOK
  <2> QED
    BY <1>6, <2>3, <2>4 DEF BreakReport
<1> QED
  BY <1>1, <1>2, <1>3, <1>4, <1>5, <1>6

\* Rows is inductive relative to the types.
LEMMA RowsStep ==
    /\ Init => Rows
    /\ TypeOK /\ Rows /\ [Next]_vars => Rows'
<1>1. Init => Rows
  BY DEF Init, Rows, RowOK
<1>2. ASSUME TypeOK, Rows, [Next]_vars
      PROVE  Rows'
  <2>1. CASE Reserve \/ CreateJob \/ UNCHANGED vars
    BY <1>2, <2>1 DEF Reserve, CreateJob, meta, vars, tables, Rows, RowOK
  <2>2. CASE Processor
    <3>1. UNCHANGED <<cost, linked, amount, fate, presumed>>
      BY <2>2 DEF Processor, Start, Resume, Count, ReleaseAll, ChargeNow, Defer,
                  Finalize, Complete, SettleFails, Catch, FailJob, Throw,
                  tables, meta
    <3>2. \A k \in Recipients : send'[k] = "sent" <=> send[k] = "sent"
      <4>1. CASE Start \/ Resume
        BY <1>2, <4>1 DEF Start, Resume, Post, Throw, NextBatch, Todo, TypeOK
      <4>2. CASE ~(Start \/ Resume)
        BY <2>2, <4>2 DEF Processor, Count, ReleaseAll, ChargeNow, Defer,
                    Finalize, Complete, SettleFails, Catch, FailJob, Throw
      <4> QED
        BY <4>1, <4>2
    <3> QED
      BY <1>2, <3>1, <3>2 DEF Rows, RowOK
  <2>3. CASE Crash
    BY <1>2, <2>3 DEF Crash, Stop, tables, meta, Rows, RowOK
  <2>4. CASE \E m \in Recipients :
               \/ MetaTakes(m) \/ SentOk(m) \/ SendFailed(m)
               \/ ReportSent(m) \/ Report(m) \/ BreakReport(m)
    BY <1>2, <2>4, RowsMessages DEF Rows
  <2> QED
    BY <1>2, <2>1, <2>2, <2>3, <2>4 DEF Next
<1> QED
  BY <1>1, <1>2

-----------------------------------------------------------------------------
(* The bill *)

\* The conditions of Due and true rows make the price that of the billed
\* messages: a row of each sent message is settled, so none is left out.
LEMMA FairPrice ==
    ASSUME TypeOK, Phase, attached,
           NEW c, NEW a, NEW p, Due(c, linked),
           \A m \in Recipients :
              /\ a[m] => fate[m] = "paid"
              /\ linked[m] => send[m] = "sent"
              /\ c[m] = "not_charged" /\ m \notin p => fate[m] \in {"free", "failed"}
              /\ c[m] = "final" /\ m \notin p => a[m]
    PROVE  LET base == BaseUnit * Cardinality(Recipients) IN
           /\ Price(a) <= base + Cardinality(Billed)
           /\ Price(a) >= base + Cardinality(Billed \ p)
<1> DEFINE T == {m \in Recipients : linked[m] /\ c[m] \in Terminal}
           D == {m \in Recipients : linked[m] /\ a[m]}
<1>1. /\ IsFiniteSet(Sent) /\ Cardinality(Sent) \in Nat
      /\ IsFiniteSet(Billed) /\ Cardinality(Billed) \in Nat
      /\ IsFiniteSet(D) /\ Cardinality(D) \in Nat
      /\ Cardinality(T) \in Nat
      /\ Cardinality(Billed \ p) \in Nat
      /\ Cardinality(Recipients) \in Nat
  <2>1. /\ Sent \in SUBSET Recipients /\ Billed \in SUBSET Recipients
        /\ Billed \ p \in SUBSET Recipients /\ D \in SUBSET Recipients
        /\ T \in SUBSET Recipients
    BY DEF Sent, Billed
  <2> HIDE DEF T, D
  <2> QED
    BY <2>1, SizeOf
<1>2. T = Sent
  <2>1. T \in SUBSET Sent
    BY DEF Sent
  <2>2. Cardinality(T) >= Cardinality(Sent)
    BY DEF Due, Phase
  <2> HIDE DEF T
  <2>3. Cardinality(T) <= Cardinality(Sent)
    BY <1>1, <2>1, FS_Subset
  <2> QED
    BY <1>1, <2>1, <2>2, <2>3, FS_Subset
<1>3. D \in SUBSET Billed
  BY DEF Billed, Sent
<1>4. Billed \ p \in SUBSET D
  <2> SUFFICES ASSUME NEW m \in Billed, m \notin p
               PROVE  m \in D
    OBVIOUS
  <2>1. m \in T /\ fate[m] = "paid" /\ m \in Recipients
    BY <1>2 DEF Billed, Sent
  <2>2. c[m] # "rate_missing"
    BY <2>1 DEF Due
  <2>3. c[m] = "final"
    BY <2>1, <2>2 DEF Terminal
  <2> QED
    BY <2>1, <2>3
<1> HIDE DEF D
<1>5. Cardinality(D) <= Cardinality(Billed)
  BY <1>1, <1>3, FS_Subset
<1>6. Cardinality(Billed \ p) <= Cardinality(D)
  BY <1>1, <1>4, FS_Subset
<1>7. Price(a) = BaseUnit * Cardinality(Recipients) + Cardinality(D)
  BY DEF Price, D
<1> DEFINE base == BaseUnit * Cardinality(Recipients)
<1>8. base \in Nat
  BY <1>1, BroadcastConstants
<1>9. Price(a) = base + Cardinality(D)
  BY <1>7
<1> HIDE DEF base
<1>10. /\ Price(a) <= base + Cardinality(Billed)
       /\ Price(a) >= base + Cardinality(Billed \ p)
  BY <1>1, <1>5, <1>6, <1>8, <1>9
<1> QED
  BY <1>10 DEF base

\* After the last batch the sent messages and what Meta bills stay.
LEMMA BilledStays ==
    ASSUME TypeOK, Phase, Rows, [Next]_vars, pc \in Late
    PROVE  /\ Sent' = Sent /\ Billed' = Billed
           /\ presumed \subseteq presumed'
           /\ model' = model
<1>1. Posting = {}
  BY DEF Phase, Late
<1>2. \A m \in Recipients : send'[m] = "sent" <=> send[m] = "sent"
  <2>1. CASE Crash \/ \E m \in Recipients : BreakReport(m)
    BY <2>1 DEF Crash, Stop, BreakReport
  <2>2. CASE ~(Crash \/ \E m \in Recipients : BreakReport(m))
    <3>1. send' = send
      BY <1>1, <2>2 DEF Next, Processor, Late, Reserve, CreateJob, Start, Resume,
                  Count, ReleaseAll, ChargeNow, Defer, Finalize, Complete,
                  SettleFails, Catch, FailJob, Throw, MetaTakes, SentOk,
                  SendFailed, ReportSent, Report, Posting, vars
    <3> QED
      BY <3>1
  <2> QED
    BY <2>1, <2>2
<1>3. fate' = fate
  BY <1>1 DEF Next, Processor, Late, Reserve, CreateJob, Start, Resume, Count,
              ReleaseAll, ChargeNow, Defer, Finalize, Complete, SettleFails,
              Catch, FailJob, MetaTakes, SentOk, SendFailed, ReportSent, Report,
              Crash, BreakReport, Posting, vars, meta
<1>4. presumed \subseteq presumed' /\ model' = model
  BY <1>1 DEF Next, Processor, Late, Reserve, CreateJob, Start, Resume, Count,
              ReleaseAll, ChargeNow, Defer, Finalize, Complete, SettleFails,
              Catch, FailJob, MetaTakes, SentOk, SendFailed, ReportSent, Report,
              Crash, BreakReport, Posting, vars
<1> QED
  BY <1>2, <1>3, <1>4 DEF Sent, Billed

\* A charge is made by commit() of a plain price or by a deferred settlement.
LEMMA ChargeMade ==
    ASSUME TypeOK, [Next]_vars, usage # "committed", usage' = "committed"
    PROVE  \/ ChargeNow
           \/ \E c, a : /\ Due(c, linked) /\ charge' = Price(a)
                        /\ c = cost' /\ a = amount'
                        /\ UNCHANGED <<linked, send, fate, model, attached>>
<1>1. CASE ChargeNow
  BY <1>1
<1>2. CASE Finalize
  <2>1. Due(cost, linked) /\ charge' = Price(amount)
    BY <1>2, TryFinalizeShape DEF Finalize
  <2>2. UNCHANGED <<cost, amount, linked, send, fate, model, attached>>
    BY <1>2 DEF Finalize, meta
  <2> QED
    BY <2>1, <2>2
<1>3. ASSUME NEW m \in Recipients, ReportSent(m)
      PROVE  \E c, a : /\ Due(c, linked) /\ charge' = Price(a)
                       /\ c = cost' /\ a = amount'
                       /\ UNCHANGED <<linked, send, fate, model, attached>>
  <2>1. Due(cost', linked) /\ charge' = Price(amount)
    BY <1>3, TryFinalizeShape DEF ReportSent
  <2>2. UNCHANGED <<amount, linked, send, fate, model, attached>>
    BY <1>3 DEF ReportSent, meta
  <2> QED
    BY <2>1, <2>2
<1>4. ASSUME NEW m \in Recipients, Report(m)
      PROVE  \E c, a : /\ Due(c, linked) /\ charge' = Price(a)
                       /\ c = cost' /\ a = amount'
                       /\ UNCHANGED <<linked, send, fate, model, attached>>
  <2>1. Due(cost', linked) /\ charge' = Price(amount')
    BY <1>4, TryFinalizeShape DEF Report
  <2>2. UNCHANGED <<linked, send, fate, model, attached>>
    BY <1>4 DEF Report
  <2> QED
    BY <2>1, <2>2
<1>5. CASE \/ Reserve \/ CreateJob \/ Crash \/ UNCHANGED vars
           \/ Start \/ Resume \/ Count \/ ReleaseAll \/ Defer \/ Complete
           \/ SettleFails \/ Catch \/ FailJob
           \/ \E m \in Recipients :
                 MetaTakes(m) \/ SentOk(m) \/ SendFailed(m) \/ BreakReport(m)
  BY <1>5 DEF Reserve, CreateJob, Crash, vars, Start, Resume, Count, ReleaseAll,
              Defer, Complete, SettleFails, Catch, FailJob, MetaTakes, SentOk,
              SendFailed, BreakReport, Throw, Release, tables
<1> QED
  BY <1>1, <1>2, <1>3, <1>4, <1>5 DEF Next, Processor

\* The bill stays fair once it is made, and is fair when it is made.
LEMMA BillStep ==
    ASSUME TypeOK, Phase, Rows, ChargeFollowsStatuses, [Next]_vars,
           TypeOK', Rows'
    PROVE  ChargeFollowsStatuses'
<1> DEFINE base == BaseUnit * Cardinality(Recipients)
<1> SUFFICES ASSUME usage' = "committed"
             PROVE  CASE model' = "fixed" -> charge' = Cardinality(Sent')
                      [] model' = "meta_like" -> charge' <= Cardinality(Sent')
                      [] OTHER ->
                           /\ charge' <= base + Cardinality(Billed')
                           /\ charge' >= base + Cardinality(Billed' \ presumed')
  BY DEF ChargeFollowsStatuses
<1>0. base \in Nat
  BY SizeOf, BroadcastConstants
<1> HIDE DEF base
<1>1. CASE usage = "committed"
  <2>1. charge' = charge
    BY <1>1, SettledStays DEF Settled
  <2>2. pc \in Late
    BY <1>1 DEF Phase, Early, Late, TypeOK, Places, Running
  <2>3. /\ Sent' = Sent /\ Billed' = Billed
        /\ presumed \subseteq presumed' /\ model' = model
    BY <2>2, BilledStays
  <2>4. CASE model \in {"fixed", "meta_like"}
    BY <1>1, <2>1, <2>3, <2>4 DEF ChargeFollowsStatuses
  <2>5. CASE model = "meta_cost_plus_credits"
    <3>1. /\ charge <= base + Cardinality(Billed)
          /\ charge >= base + Cardinality(Billed \ presumed)
      BY <1>1, <2>5 DEF ChargeFollowsStatuses, base
    <3>2. /\ Cardinality(Billed \ presumed) \in Nat
          /\ IsFiniteSet(Billed \ presumed)
          /\ Cardinality(Billed \ presumed') \in Nat
      <4>1. /\ Billed \ presumed \in SUBSET Recipients
            /\ Billed \ presumed' \in SUBSET Recipients
        BY DEF Billed, Sent
      <4> QED
        BY <4>1, SizeOf
    <3>3. Cardinality(Billed \ presumed') <= Cardinality(Billed \ presumed)
      <4>1. Billed \ presumed' \in SUBSET (Billed \ presumed)
        BY <2>3
      <4> QED
        BY <3>2, <4>1, FS_Subset
    <3>4. charge \in Nat
      BY DEF TypeOK
    <3>5. charge >= base + Cardinality(Billed \ presumed')
      BY <1>0, <3>1, <3>2, <3>3, <3>4
    <3> QED
      BY <2>1, <2>3, <2>5, <3>1, <3>5
  <2> QED
    BY <2>4, <2>5 DEF TypeOK, AllModels
<1>2. CASE usage # "committed" /\ ChargeNow
  <2>1. PICK q \in Billable : Commit(q)
    BY <1>2 DEF ChargeNow
  <2>2. q \in Nat /\ Cardinality(Sent) \in Nat
    <3>1. Cardinality(Sent) \in Nat
      BY SizeOf DEF Sent
    <3> QED
      BY <2>1, <3>1 DEF Billable
  <2>3. charge' = q
    BY <1>2, <2>1, <2>2, CommitShape
  <2>4. Sent' = Sent /\ model' = model /\ model \in {"fixed", "meta_like"}
    BY <1>2 DEF ChargeNow, Sent, TypeOK, AllModels
  <2> QED
    BY <2>1, <2>2, <2>3, <2>4 DEF Billable
<1>3. CASE usage # "committed" /\ ~ChargeNow
  <2>1. /\ Due(cost', linked) /\ charge' = Price(amount')
        /\ UNCHANGED <<linked, send, fate, model, attached>>
    BY <1>3, ChargeMade
  <2>2. attached /\ model = "meta_cost_plus_credits"
    BY <2>1 DEF Due, Phase
  <2>3. \A m \in Recipients :
           /\ amount'[m] => fate[m] = "paid"
           /\ linked[m] => send[m] = "sent"
           /\ cost'[m] = "not_charged" /\ m \notin presumed'
                 => fate[m] \in {"free", "failed"}
           /\ cost'[m] = "final" /\ m \notin presumed' => amount'[m]
    BY <2>1 DEF Rows, RowOK
  <2>4. /\ Price(amount') <= base + Cardinality(Billed)
        /\ Price(amount') >= base + Cardinality(Billed \ presumed')
    BY <2>1, <2>2, <2>3, FairPrice DEF base
  <2>5. Billed' = Billed
    BY <2>1 DEF Billed, Sent
  <2> QED
    BY <2>1, <2>2, <2>4, <2>5
<1> QED
  BY <1>1, <1>2, <1>3

\* The tenant pays for every message that Meta bills, unless a local estimate
\* had called it free, and for no other message.
THEOREM BillFollowsStatuses == Spec => []ChargeFollowsStatuses
<1>1. Init => ChargeFollowsStatuses
  BY DEF Init, ChargeFollowsStatuses
<1>2. TypeOK /\ Phase /\ Rows /\ ChargeFollowsStatuses
        /\ [Next]_vars /\ TypeOK' /\ Rows' => ChargeFollowsStatuses'
  BY BillStep
<1> QED
  BY <1>1, <1>2, TypeStep, PhaseStep, RowsStep, PTL DEF Spec

-----------------------------------------------------------------------------
(* No job is forgotten *)

\* Conditions that are met need a row of every sent message.
LEMMA DueIsComplete ==
    ASSUME TypeOK, Phase, Rows, NEW c, Due(c, linked)
    PROVE  \A m \in Sent : linked[m]
<1> DEFINE T == {m \in Recipients : linked[m] /\ c[m] \in Terminal}
<1>1. T \in SUBSET Sent /\ Sent \in SUBSET Recipients
  BY DEF Sent, Rows, RowOK
<1>2. Cardinality(T) >= Cardinality(Sent)
  BY DEF Due, Phase
<1>3. T = Sent
  <2> HIDE DEF T
  <2>1. T \in SUBSET Recipients
    BY <1>1
  <2>2. /\ IsFiniteSet(Sent) /\ Cardinality(Sent) \in Nat
        /\ Cardinality(T) \in Nat
    BY <1>1, <2>1, SizeOf
  <2>3. Cardinality(T) <= Cardinality(Sent)
    BY <1>1, <2>2, FS_Subset
  <2> QED
    BY <1>1, <1>2, <2>2, <2>3, FS_Subset
<1> QED
  BY <1>3

\* A settlement that is tried leaves nothing overdue.
LEMMA TriedIsNotDue ==
    ASSUME TypeOK, NEW c, NEW a, TryFinalize(c, a), usage' = "reserved"
    PROVE  ~Due(c, linked)
<1>1. SUFFICES ASSUME Due(c, linked)
               PROVE  FALSE
  OBVIOUS
<1>2. Commit(Price(a)) /\ usage = "reserved"
  BY <1>1 DEF TryFinalize, Due
<1> QED
  BY <1>2 DEF Commit, Release

\* The row of a message that is not linked is no part of the conditions.
LEMMA UnlinkedIsNotDue ==
    ASSUME NEW c, NEW d,
           \A m \in Recipients : linked[m] => c[m] = d[m]
    PROVE  Due(c, linked) <=> Due(d, linked)
<1>1. {m \in Recipients : linked[m] /\ c[m] \in Terminal}
        = {m \in Recipients : linked[m] /\ d[m] \in Terminal}
  OBVIOUS
<1> QED
  BY <1>1 DEF Due

\* Reports keep the memory of what is overdue.
LEMMA RememberedReports ==
    ASSUME TypeOK, Phase, Rows, Remembered, NEW m \in Recipients,
           ReportSent(m) \/ Report(m) \/ BreakReport(m)
    PROVE  Remembered'
<1>1. UNCHANGED <<job, attached, linked, sentCount>> /\ cost' \in [Recipients -> Costs]
  BY MessageTypes DEF ReportSent, Report, BreakReport, TypeOK
<1>2. Sent' = Sent /\ (pc' = pc \/ pc' = "done")
  BY DEF ReportSent, Report, BreakReport, Stop, Sent, TypeOK
<1>3. /\ usage \in Settled => usage' \in Settled
      /\ usage # "none" => usage' # "none"
      /\ usage' = "reserved" => usage = "reserved"
  <2>1. CASE ReportSent(m) \/ Report(m)
    <3>1. (\E c, a : TryFinalize(c, a)) \/ usage' = usage
      BY <2>1 DEF ReportSent, Report
    <3>2. CASE \E c, a : TryFinalize(c, a)
      BY <3>2 DEF TryFinalize, Commit, Release, Settled, TypeOK
    <3> QED
      BY <3>1, <3>2
  <2>2. CASE BreakReport(m)
    BY <2>2 DEF BreakReport
  <2> QED
    BY <2>1, <2>2
<1>4. HandedOver' => HandedOver
  BY <1>1, <1>2 DEF HandedOver
<1>5. \A k \in Recipients : k # m => cost'[k] = cost[k]
  BY DEF ReportSent, Report, BreakReport, TypeOK
<1>6. ASSUME HandedOver', Overdue'
      PROVE  \E k \in Sent : ~told'[k]
  <2>0. Due(cost', linked) /\ usage' = "reserved" /\ usage = "reserved"
    BY <1>1, <1>3, <1>6 DEF Overdue, Due
  <2>1. CASE linked[m]
    <3>1. BreakReport(m)
      <4>1. CASE ReportSent(m)
        <5>1. \E a : TryFinalize(cost', a)
          BY <2>1, <4>1 DEF ReportSent
        <5> QED
          BY <2>0, <5>1, TriedIsNotDue
      <4>2. CASE Report(m)
        <5>1. \E a : TryFinalize(cost', a)
          BY <2>1, <4>2 DEF Report
        <5> QED
          BY <2>0, <5>1, TriedIsNotDue
      <4> QED
        BY <4>1, <4>2
    <3>2. m \in Sent
      BY <2>1 DEF Rows, RowOK, Sent
    <3>3. ~told'[m]
      BY <3>1 DEF BreakReport, TypeOK
    <3> QED
      BY <3>2, <3>3
  <2>2. CASE ~linked[m]
    <3>1. Overdue
      BY <1>5, <2>0, <2>2, UnlinkedIsNotDue DEF Overdue
    <3>2. PICK k \in Sent : ~told[k]
      BY <1>4, <1>6, <3>1 DEF Remembered
    <3>3. k # m
      BY <2>2, <3>1, DueIsComplete DEF Overdue
    <3>4. ~told'[k]
      BY <3>2, <3>3 DEF ReportSent, Report, BreakReport, Sent, TypeOK, meta
    <3> QED
      BY <3>4
  <2> QED
    BY <2>1, <2>2
<1> QED
  BY <1>1, <1>2, <1>3, <1>4, <1>6 DEF Remembered

\* The processor settles, or leaves nothing overdue behind.
LEMMA RememberedProcessor ==
    ASSUME TypeOK, Phase, Rows, Remembered, Processor
    PROVE  Remembered'
<1>0. job # "completed" \/ FailJob
  BY DEF Processor, Remembered, Start, Resume, Count, ReleaseAll, ChargeNow,
         Defer, Finalize, Complete, SettleFails, Catch
<1>1. CASE Start \/ Resume \/ Count
  <2>1. /\ pc \in Early /\ job' # "completed" /\ attached' = attached
        /\ pc' \in {"posting", "waiting", "settling", "catching"}
    BY <1>0, <1>1 DEF Start, Resume, Count, Throw, Early, tables, FailJob, Remembered
  <2>2. ~attached'
    BY <2>1 DEF Phase, Early
  <2> QED
    BY <2>1, <2>2 DEF Remembered, HandedOver
<1>2. CASE ReleaseAll \/ ChargeNow
  <2>1. usage = "reserved" /\ ~attached /\ attached' = attached
    BY <1>2 DEF ReleaseAll, ChargeNow, Phase, Early
  <2>2. usage' \in Settled /\ pc' = "completing" /\ job' = job
    BY <1>2, <2>1 DEF ReleaseAll, ChargeNow, Commit, Release, Settled
  <2> QED
    BY <1>0, <1>2, <2>1, <2>2 DEF Remembered, HandedOver, Overdue, Settled, ReleaseAll,
                             ChargeNow, FailJob
<1>3. CASE Defer
  <2>1. usage = "reserved"
    BY <1>3 DEF Defer, Phase, Early
  <2>2. Sent' = Sent
    BY <1>3 DEF Defer, Sent
  <2> QED
    BY <1>0, <1>3, <2>1, <2>2 DEF Defer, Remembered, HandedOver, FailJob
<1>4. CASE Finalize
  <2>1. /\ attached /\ UNCHANGED <<attached, linked, sentCount, cost, job>>
        /\ Sent' = Sent /\ pc' = "completing" /\ TryFinalize(cost, amount)
        /\ job # "completed"
    BY <1>0, <1>4 DEF Finalize, Remembered, Sent, FailJob
  <2>2. usage' # "none"
    BY <2>1 DEF Remembered, TryFinalize, Commit, Release
  <2>3. usage' = "reserved" => ~Due(cost, linked) /\ usage = "reserved"
    <3>1. usage' = "reserved" => ~Due(cost, linked)
      BY <2>1, TriedIsNotDue
    <3> QED
      BY <2>1, <3>1 DEF TryFinalize
  <2>4. ~Overdue'
    BY <2>1, <2>3 DEF Overdue, Due
  <2> QED
    BY <2>1, <2>2, <2>4 DEF Remembered, HandedOver
<1>5. CASE Complete
  <2>1. /\ UNCHANGED <<attached, linked, cost, usage, told>>
        /\ Sent' = Sent /\ pc' = "done" /\ HandedOver
        /\ sentCount' = Cardinality(Sent)
    BY <1>5 DEF Complete, HandedOver, Sent, meta
  <2>2. attached => sentCount' = sentCount
    BY <2>1 DEF Phase
  <2>3. Overdue' => Overdue
    BY <2>1, <2>2 DEF Overdue, Due
  <2> QED
    BY <2>1, <2>3 DEF Remembered
<1>6. CASE SettleFails \/ Catch \/ FailJob
  <2>1. /\ attached' = attached /\ Sent' = Sent /\ job' # "completed"
        /\ pc' \in {"catching", "failing", "done"}
    BY <1>0, <1>6 DEF SettleFails, Catch, FailJob, Throw, Sent, tables
  <2>2. usage # "none" => usage' # "none"
    BY <1>6 DEF SettleFails, Catch, FailJob, Throw, Release, tables
  <2> QED
    BY <2>1, <2>2 DEF Remembered, HandedOver
<1> QED
  BY <1>1, <1>2, <1>3, <1>4, <1>5, <1>6 DEF Processor

\* Remembered is inductive relative to the types, phases and rows.
LEMMA RememberedStep ==
    /\ Init => Remembered
    /\ TypeOK /\ Phase /\ Rows /\ Remembered /\ [Next]_vars => Remembered'
<1>1. Init => Remembered
  BY DEF Init, Remembered, HandedOver
<1>2. ASSUME TypeOK, Phase, Rows, Remembered, [Next]_vars
      PROVE  Remembered'
  <2>1. CASE Reserve \/ CreateJob
    <3>1. ~attached /\ job # "completed"
      BY <1>2, <2>1 DEF Reserve, CreateJob, Phase, Early, Remembered, TypeOK
    <3>2. ~attached' /\ job' # "completed" /\ pc' \in {"reserved", "scheduled", "done"}
      BY <2>1, <3>1 DEF Reserve, CreateJob
    <3> QED
      BY <3>2 DEF Remembered, HandedOver
  <2>2. CASE Processor
    BY <1>2, <2>2, RememberedProcessor
  <2>3. CASE Crash
    <3>1. /\ UNCHANGED <<job, usage, attached, linked, sentCount, cost, told>>
          /\ pc' = "done" /\ Sent' = Sent
      BY <1>2, <2>3 DEF Crash, Stop, tables, meta, Sent, TypeOK
    <3> QED
      BY <1>2, <3>1 DEF Remembered, HandedOver, Overdue, Due
  <2>4. ASSUME NEW m \in Recipients, MetaTakes(m)
        PROVE  Remembered'
    <3>1. UNCHANGED <<tables, pc, send, told>>
      BY <2>4 DEF MetaTakes
    <3> QED
      BY <1>2, <3>1 DEF Remembered, HandedOver, Overdue, Due, Sent, tables
  <2>5. ASSUME NEW m \in Recipients, SentOk(m) \/ SendFailed(m)
        PROVE  Remembered'
    <3>1. pc = "posting"
      BY <1>2, <2>5 DEF SentOk, SendFailed, Posting, Phase
    <3>2. /\ ~attached /\ job # "completed" /\ attached' = attached /\ job' = job
          /\ pc' \in {"posting", "counting"}
      BY <1>2, <2>5, <3>1 DEF SentOk, SendFailed, AfterAnswer, Phase, Early, Remembered,
                        tables
    <3> QED
      BY <3>2 DEF Remembered, HandedOver
  <2>6. ASSUME NEW m \in Recipients, ReportSent(m) \/ Report(m) \/ BreakReport(m)
        PROVE  Remembered'
    BY <1>2, <2>6, RememberedReports
  <2>7. CASE UNCHANGED vars
    BY <1>2, <2>7 DEF vars, tables, meta, Remembered, HandedOver, Overdue, Due, Sent
  <2> QED
    BY <1>2, <2>1, <2>2, <2>3, <2>4, <2>5, <2>6, <2>7 DEF Next
<1> QED
  BY <1>1, <1>2

\* A job whose messages all have rows and reports meets the conditions.
LEMMA AccountedIsDue ==
    ASSUME TypeOK, Phase, Rows, Remembered, attached, usage \notin Settled, Accountable
    PROVE  Overdue
<1> DEFINE T == {m \in Recipients : linked[m] /\ cost[m] \in Terminal}
<1>1. usage = "reserved" /\ sentCount = Cardinality(Sent) /\ Sent # {}
  BY DEF TypeOK, Phase, Remembered
<1>2. T = Sent
  BY DEF Sent, Accountable, Terminal, Rows, RowOK
<1>3. \A m \in Recipients : linked[m] => cost[m] # "rate_missing"
  BY DEF Sent, Accountable, Rows, RowOK
<1>4. sentCount > 0
  <2>1. Sent \in SUBSET Recipients
    BY DEF Sent
  <2>2. Cardinality(Sent) # 0 /\ Cardinality(Sent) \in Nat
    BY <1>1, <2>1, SizeOf, FS_EmptySet
  <2> QED
    BY <1>1, <2>2
<1>5. Cardinality(T) >= sentCount
  <2> HIDE DEF T
  <2> QED
    BY <1>1, <1>2 DEF TypeOK
<1>6. Due(cost, linked)
  BY <1>1, <1>3, <1>4, <1>5 DEF Due
<1> QED
  BY <1>1, <1>6 DEF Overdue

\* A completed job is settled once every sent message has a priced row of the job
\* and its last report was handled, in whatever order these came.
THEOREM NoJobIsForgotten == Spec => []NothingForgotten
<1>1. TypeOK /\ Phase /\ Rows /\ Remembered => NothingForgotten
  BY AccountedIsDue DEF NothingForgotten, Remembered, HandedOver
<1> QED
  BY <1>1, TypeStep, PhaseStep, RowsStep, RememberedStep, PTL DEF Spec

-----------------------------------------------------------------------------
(* Refinement of PrepaidBroadcast *)

\* When the bill is made up, every message was tried; and a row of the job has a
\* status.
Tried ==
    /\ pc = "settling" \/ attached => Todo = {}
    /\ \A m \in Recipients : linked[m] => cost[m] # "none"

\* Messages are tried once, and reports leave a status in each row.
LEMMA TriedStep ==
    /\ Init => Tried
    /\ TypeOK /\ Tried /\ [Next]_vars => Tried'
<1>1. Init => Tried
  BY DEF Init, Tried
<1>2. ASSUME TypeOK, Tried, [Next]_vars
      PROVE  Tried'
  <2> USE DEF TypeOK, Tried
  <2>1. CASE Reserve \/ CreateJob
    BY <2>1, <1>2 DEF Reserve, CreateJob, Todo
  <2>2. CASE Processor
    <3>1. UNCHANGED <<cost, linked>>
      BY <2>2 DEF Processor, Start, Resume, Count, ReleaseAll, ChargeNow, Defer,
                  Finalize, Complete, SettleFails, Catch, FailJob, Throw, tables
    <3>2. Todo' \subseteq Todo
      BY <1>2, <2>2 DEF Todo, Processor, Start, Resume, Post, Count, ReleaseAll,
                  ChargeNow, Defer, Finalize, Complete, SettleFails, Catch,
                  FailJob, Throw
    <3>3. pc' = "settling" \/ attached'
            => Todo = {} \/ pc = "settling" \/ attached
      BY <2>2 DEF Processor, Start, Resume, Count, ReleaseAll, ChargeNow, Defer,
                  Finalize, Complete, SettleFails, Catch, FailJob, Throw, tables
    <3> QED
      BY <1>2, <3>1, <3>2, <3>3
  <2>3. CASE Crash
    BY <1>2, <2>3 DEF Crash, Stop, tables, Todo
  <2>4. ASSUME NEW k \in Recipients,
               \/ MetaTakes(k) \/ SentOk(k) \/ SendFailed(k)
               \/ ReportSent(k) \/ Report(k) \/ BreakReport(k)
        PROVE  Tried'
    <3>1. Todo' \subseteq Todo
      BY <1>2, <2>4 DEF Todo, MetaTakes, SentOk, SendFailed, ReportSent, Report,
                  BreakReport, Stop
    <3>2. pc' = "settling" \/ attached' => pc = "settling" \/ attached
      BY <2>4 DEF MetaTakes, SentOk, SendFailed, AfterAnswer, ReportSent, Report,
                  BreakReport, Stop, tables
    <3>3. CASE MetaTakes(k) \/ SendFailed(k)
      BY <1>2, <3>1, <3>2, <3>3 DEF MetaTakes, SendFailed, tables
    <3>4. CASE SentOk(k)
      <4>1. \/ UNCHANGED <<cost, linked>>
            \/ /\ linked' = [linked EXCEPT ![k] = TRUE]
               /\ \E e \in Estimates : cost' = [cost EXCEPT ![k] = Recorded(k, e)]
        BY <3>4 DEF SentOk
      <4>2. \A e \in Estimates : Recorded(k, e) # "none"
        BY BroadcastConstants DEF Recorded
      <4> QED
        BY <1>2, <3>1, <3>2, <4>1, <4>2
    <3>5. CASE ReportSent(k) \/ Report(k) \/ BreakReport(k)
      <4>1. /\ linked' = linked
            /\ \/ cost' = cost
               \/ \E v \in Costs \ {"none"} : cost' = [cost EXCEPT ![k] = v]
        <5>1. RowFor(k) \subseteq Costs \ {"none"}
          BY <1>2 DEF RowFor, Costs
        <5>2. Priced(k) \subseteq Costs \ {"none"}
          BY BroadcastConstants DEF Priced, Costs
        <5>3. CASE ReportSent(k)
          BY <5>1, <5>3 DEF ReportSent
        <5>4. CASE Report(k)
          <6>1. PICK v \in Priced(k) :
                   cost' = [cost EXCEPT ![k] = IF cost[k] = "final" THEN @ ELSE v]
            BY <5>4 DEF Report
          <6>2. linked' = linked
            BY <5>4 DEF Report
          <6>3. CASE cost[k] = "final"
            BY <1>2, <6>1, <6>2, <6>3
          <6>4. CASE cost[k] # "final"
            BY <5>2, <6>1, <6>2, <6>4
          <6> QED
            BY <6>3, <6>4
        <5>5. CASE BreakReport(k)
          BY <5>2, <5>5 DEF BreakReport
        <5> QED
          BY <3>5, <5>3, <5>4, <5>5
      <4> QED
        BY <1>2, <3>1, <3>2, <4>1
    <3> QED
      BY <2>4, <3>3, <3>4, <3>5
  <2>5. CASE UNCHANGED vars
    BY <1>2, <2>5 DEF vars, tables, Todo
  <2> QED
    BY <1>2, <2>1, <2>2, <2>3, <2>4, <2>5 DEF Next
<1> QED
  BY <1>1, <1>2

\* What the promise says of messages is what the processor says of them.
LEMMA BillPlaces ==
    /\ Bill!With("todo") = Todo
    /\ Bill!With("posting") = Posting
    /\ Bill!With("sent") = Sent
    /\ Bill!Billed = Billed
  BY DEF Bill!With, Bill!Billed, Todo, Posting, Sent, Billed

\* The promise counts as the model does.
LEMMA BillCounts == \A S : Bill!Cardinality(S) = Cardinality(S)
  BY DEF Bill!Cardinality, Cardinality

\* Nothing has been held, sent or charged at the start.
LEMMA BillInit == Init => Bill!Init
  BY DEF Init, Bill!Init

\* A release gives the credits back, once.
LEMMA ReleaseIsGiveBack ==
    ASSUME Posting = {}, Release \/ UNCHANGED <<usage, charge>>,
           UNCHANGED <<model, send, fate, presumed>>
    PROVE  [Bill!Next]_Bill!vars
<1>1. CASE usage = "reserved" /\ usage' = "released" /\ charge' = charge
  <2>1. Bill!GiveBack
    BY <1>1, BillPlaces DEF Bill!GiveBack
  <2> QED
    BY <2>1 DEF Bill!Next
<1>2. CASE UNCHANGED <<usage, charge>>
  BY <1>2 DEF Bill!vars
<1> QED
  BY <1>1, <1>2 DEF Release

\* A commit() of a fair price is a charge, or gives the credits back.
LEMMA CommitIsCharge ==
    ASSUME Todo = {}, Posting = {}, Sent # {},
           NEW q \in Nat, Commit(q), Bill!Fair(q),
           UNCHANGED <<model, send, fate, presumed>>
    PROVE  [Bill!Next]_Bill!vars
<1>1. CASE usage = "reserved" /\ q > 0
  <2>1. usage' = "committed" /\ charge' = q
    BY <1>1 DEF Commit
  <2>2. Bill!Charge
    BY <1>1, <2>1, BillPlaces DEF Bill!Charge
  <2> QED
    BY <2>2 DEF Bill!Next
<1>2. CASE ~(usage = "reserved" /\ q > 0)
  <2>1. Release
    BY <1>2 DEF Commit
  <2> QED
    BY <2>1, ReleaseIsGiveBack
<1> QED
  BY <1>1, <1>2

\* A settlement by status asks a fair price.
LEMMA TryIsCharge ==
    ASSUME TypeOK, Phase, Rows', Tried, TryFinalize(cost', amount'),
           UNCHANGED <<linked, model, send, fate, presumed>>
    PROVE  [Bill!Next]_Bill!vars
<1>1. CASE Due(cost', linked)
  <2>1. attached /\ sentCount > 0
    BY <1>1 DEF Due
  <2>2. /\ Todo = {} /\ Posting = {}
        /\ model = "meta_cost_plus_credits"
    BY <2>1 DEF Tried, Phase, Early
  <2>3. Sent # {}
    <3>1. sentCount = Cardinality(Sent)
      BY <2>1 DEF Phase
    <3> QED
      BY <2>1, <3>1, FS_EmptySet
  <2>4. \A m \in Recipients :
           /\ amount'[m] => fate[m] = "paid"
           /\ linked[m] => send[m] = "sent"
           /\ cost'[m] = "not_charged" /\ m \notin presumed
                 => fate[m] \in {"free", "failed"}
           /\ cost'[m] = "final" /\ m \notin presumed => amount'[m]
    BY DEF Rows, RowOK
  <2>5. LET base == BaseUnit * Cardinality(Recipients) IN
        /\ Price(amount') <= base + Cardinality(Billed)
        /\ Price(amount') >= base + Cardinality(Billed \ presumed)
    BY <1>1, <2>1, <2>4, FairPrice
  <2>6. Bill!Fair(Price(amount'))
    BY <2>2, <2>5, BillPlaces, BillCounts DEF Bill!Fair
  <2>7. Commit(Price(amount')) /\ Price(amount') \in Nat
    BY <1>1, PriceType DEF TryFinalize
  <2> QED
    BY <2>2, <2>3, <2>6, <2>7, CommitIsCharge
<1>2. CASE ~Due(cost', linked)
  BY <1>2 DEF TryFinalize, Bill!vars
<1> QED
  BY <1>1, <1>2

\* Each step of the processor is a step of the promise.
LEMMA BillOfProcessor ==
    ASSUME TypeOK, Phase, Rows', Tried, Processor
    PROVE  [Bill!Next]_Bill!vars
<1> USE DEF TypeOK
<1>1. CASE Start \/ Resume
  <2>1. UNCHANGED <<model, usage, charge, fate, presumed>>
    BY <1>1 DEF Start, Resume, Throw, tables, meta
  <2>2. CASE Post
    <3>1. usage = "reserved" /\ NextBatch \in SUBSET Recipients
      BY <1>1 DEF Start, Resume, Phase, Early, NextBatch, Todo
    <3>2. NextBatch \subseteq Bill!With("todo")
      BY BillPlaces DEF NextBatch
    <3>3. Bill!Post(NextBatch)
      BY <2>1, <2>2, <3>1, <3>2 DEF Post, Bill!Post, Bill!Move
    <3> QED
      BY <3>1, <3>3 DEF Bill!Next
  <2>3. CASE UNCHANGED send
    BY <2>1, <2>3 DEF Bill!vars
  <2> QED
    BY <1>1, <2>2, <2>3 DEF Start, Resume, Throw
<1>2. CASE ChargeNow
  <2>1. PICK q \in Billable : Commit(q)
    BY <1>2 DEF ChargeNow
  <2>2. Cardinality(Sent) \in Nat
    BY SizeOf DEF Sent
  <2>3. q \in Nat /\ Bill!Fair(q)
    BY <1>2, <2>1, <2>2, BillPlaces, BillCounts
    DEF Billable, ChargeNow, AllModels, Bill!Fair
  <2>4. Todo = {} /\ Posting = {} /\ Sent # {}
    BY <1>2 DEF ChargeNow, Tried, Phase
  <2>5. UNCHANGED <<model, send, fate, presumed>>
    BY <1>2 DEF ChargeNow, meta
  <2> QED
    BY <2>1, <2>3, <2>4, <2>5, CommitIsCharge
<1>3. CASE Finalize
  <2>1. TryFinalize(cost', amount')
    BY <1>3 DEF Finalize
  <2>2. UNCHANGED <<linked, model, send, fate, presumed>>
    BY <1>3 DEF Finalize, meta
  <2> QED
    BY <2>1, <2>2, TryIsCharge
<1>4. CASE ReleaseAll \/ Catch
  <2>1. Posting = {}
    BY <1>4 DEF ReleaseAll, Catch, Phase
  <2>2. UNCHANGED <<model, send, fate, presumed>>
    BY <1>4 DEF ReleaseAll, Catch, meta
  <2>3. Release \/ UNCHANGED <<usage, charge>>
    BY <1>4 DEF ReleaseAll, Catch
  <2> QED
    BY <2>1, <2>2, <2>3, ReleaseIsGiveBack
<1>5. CASE Count \/ Defer \/ Complete \/ SettleFails \/ FailJob
  BY <1>5 DEF Count, Defer, Complete, SettleFails, FailJob, Throw, tables, meta,
              Bill!vars
<1> QED
  BY <1>1, <1>2, <1>3, <1>4, <1>5 DEF Processor

\* What was on its way when the process stops has failed.
LEMMA StopIsFail ==
    ASSUME TypeOK, Stop, UNCHANGED <<model, usage, charge, fate, presumed>>
    PROVE  Bill!Next
<1>1. Bill!Fail(Posting)
  BY BillPlaces DEF Stop, Posting, Bill!Fail, Bill!Move
<1> QED
  BY <1>1 DEF Bill!Next, Posting

\* Each step of Meta and of a delivery report is a step of the promise.
LEMMA BillOfMessages ==
    ASSUME TypeOK, Phase, Rows', Tried, NEW m \in Recipients,
           \/ MetaTakes(m) \/ SentOk(m) \/ SendFailed(m)
           \/ ReportSent(m) \/ Report(m) \/ BreakReport(m)
    PROVE  [Bill!Next]_Bill!vars
<1> USE DEF TypeOK
<1>1. CASE MetaTakes(m)
  <2>1. Bill!Take(m)
    BY <1>1 DEF MetaTakes, tables, Fates, Bill!Take
  <2> QED
    BY <2>1 DEF Bill!Next
<1>2. CASE SentOk(m)
  <2>1. /\ send[m] = "posting" /\ fate[m] # "none"
        /\ send' = [send EXCEPT ![m] = "sent"]
        /\ presumed' \in {presumed, presumed \cup {m}}
        /\ UNCHANGED <<model, usage, charge, fate>>
    BY <1>2 DEF SentOk, meta
  <2>2. send' = [k \in Recipients |-> IF k \in {m} THEN "sent" ELSE send[k]]
    BY <2>1
  <2>3. Bill!Answer(m)
    BY <2>1, <2>2 DEF Bill!Answer, Bill!Move
  <2> QED
    BY <2>3 DEF Bill!Next
<1>3. CASE SendFailed(m)
  <2>1. /\ m \in Posting
        /\ send' = [send EXCEPT ![m] = "failed"]
        /\ UNCHANGED <<model, usage, charge, fate, presumed>>
    BY <1>3 DEF SendFailed, tables, meta, Posting
  <2>2. send' = [k \in Recipients |-> IF k \in {m} THEN "failed" ELSE send[k]]
    BY <2>1
  <2>3. Bill!Fail({m}) /\ {m} \in SUBSET Recipients
    BY <2>1, <2>2, BillPlaces DEF Bill!Fail, Bill!Move
  <2> QED
    BY <2>3 DEF Bill!Next
<1>4. CASE ReportSent(m)
  <2>1. UNCHANGED <<linked, model, send, fate, amount>>
    BY <1>4 DEF ReportSent, meta
  <2>2. CASE linked[m]
    <3>1. presumed' = presumed
      BY <1>4, <2>2 DEF ReportSent, Tried
    <3>2. TryFinalize(cost', amount')
      BY <1>4, <2>1, <2>2 DEF ReportSent
    <3> QED
      BY <2>1, <3>1, <3>2, TryIsCharge
  <2>3. CASE ~linked[m]
    <3>1. UNCHANGED <<usage, charge>> /\ fate[m] # "none"
      BY <1>4, <2>3 DEF ReportSent
    <3>2. presumed' = presumed \/ presumed' = presumed \cup {m}
      BY <1>4 DEF ReportSent
    <3>3. CASE presumed' = presumed
      BY <2>1, <3>1, <3>3 DEF Bill!vars
    <3>4. CASE presumed' = presumed \cup {m}
      <4>1. Bill!Presume(m)
        BY <2>1, <3>1, <3>4 DEF Bill!Presume
      <4> QED
        BY <4>1 DEF Bill!Next
    <3> QED
      BY <3>2, <3>3, <3>4
  <2> QED
    BY <2>2, <2>3
<1>5. CASE Report(m)
  <2>1. UNCHANGED <<linked, model, send, fate, presumed>>
    BY <1>5 DEF Report
  <2>2. CASE linked[m]
    <3>1. TryFinalize(cost', amount')
      BY <1>5, <2>2 DEF Report
    <3> QED
      BY <2>1, <3>1, TryIsCharge
  <2>3. CASE ~linked[m]
    BY <1>5, <2>1, <2>3 DEF Report, Bill!vars
  <2> QED
    BY <2>2, <2>3
<1>6. CASE BreakReport(m)
  <2>1. UNCHANGED <<model, usage, charge, fate, presumed>>
    BY <1>6 DEF BreakReport
  <2>2. CASE Stop
    BY <2>1, <2>2, StopIsFail
  <2>3. CASE UNCHANGED <<pc, send>>
    BY <2>1, <2>3 DEF Bill!vars
  <2> QED
    BY <1>6, <2>2, <2>3 DEF BreakReport
<1> QED
  BY <1>1, <1>2, <1>3, <1>4, <1>5, <1>6

\* Every step of the broadcast is a step or a stutter of the promise.
LEMMA BillNext ==
    TypeOK /\ Phase /\ Rows' /\ Tried /\ [Next]_vars => [Bill!Next]_Bill!vars
<1> SUFFICES ASSUME TypeOK, Phase, Rows', Tried, [Next]_vars
             PROVE  [Bill!Next]_Bill!vars
  OBVIOUS
<1>1. CASE Reserve
  <2>1. Bill!Hold
    BY <1>1 DEF Reserve, meta, Bill!Hold
  <2> QED
    BY <2>1 DEF Bill!Next
<1>2. CASE CreateJob
  <2>1. Posting = {} /\ UNCHANGED <<model, send, fate, presumed>>
    BY <1>2 DEF CreateJob, Phase, meta
  <2>2. Release \/ UNCHANGED <<usage, charge>>
    BY <1>2 DEF CreateJob
  <2> QED
    BY <2>1, <2>2, ReleaseIsGiveBack
<1>3. CASE Processor
  BY <1>3, BillOfProcessor
<1>4. CASE Crash
  <2>1. Stop /\ UNCHANGED <<model, usage, charge, fate, presumed>>
    BY <1>4 DEF Crash, tables, meta
  <2> QED
    BY <2>1, StopIsFail
<1>5. CASE UNCHANGED vars
  BY <1>5 DEF vars, tables, meta, Bill!vars
<1> QED
  BY <1>1, <1>2, <1>3, <1>4, <1>5, BillOfMessages DEF Next

\* The broadcast implements prepaid sending, for any recipients, batch size,
\* prices, faults, and any order of reports.
THEOREM BillIsKept == Spec => ImplementsBill
<1>1. Spec => []TypeOK /\ []Phase /\ []Rows /\ []Tried
  BY TypeStep, PhaseStep, RowsStep, TriedStep, PTL DEF Spec
<1> QED
  BY <1>1, BillInit, BillNext, PTL DEF Spec, ImplementsBill, Bill!Spec

=============================================================================
