--------------------------- MODULE PinLifeProofs ---------------------------
(***************************************************************************)
(* PinLife proved for any hosts, sizes, rates, leases and channels, and    *)
(* any number of faults: the lease and the rent on record are those the    *)
(* holders go by, channels are neither shared nor forgotten, a receipt     *)
(* fits its channel, and the health a pass records is true.                *)
(***************************************************************************)
EXTENDS PinLife, TLAPS

----------------------------------------------------------------------------
(* Types.  A command carries what it learnt through several steps, so the   *)
(* invariant says what a process is at each.                                *)

Challenges == [index : Nat, nonce : {<<>>} \cup (Nat \X Nat)]

ProcFields ==
    [cmd : {"none", "add", "renew", "pass", "rm"},
     at : {"idle", "offer", "fund", "renew", "audit", "gate", "prove", "pay", "release"},
     todo : SUBSET Hosts, rate : Nat, expiry : Nat,
     host : Hosts \cup {NoHost}, challenge : Challenges,
     got : SUBSET Hosts, chan : Chans, passed : SUBSET Hosts, signed : SUBSET Hosts]

(* Which command is where, and what it has in hand there.                   *)
Stages ==
    /\ proc.at = "idle" => proc = Idle
    /\ proc.cmd = "none" => proc.at = "idle"
    /\ proc.cmd = "add" => proc.at \in {"offer", "fund"}
    /\ proc.cmd = "renew" => proc.at = "renew"
    /\ proc.cmd = "pass" => proc.at \notin {"idle", "renew", "release"}
    /\ proc.cmd = "rm" => proc.at = "release"
    /\ proc.at \in {"gate", "prove"} => proc.host \in Hosts
    /\ proc.at \notin {"offer", "fund", "release"} => proc.chan = NoChans
    /\ proc.at \notin {"offer", "fund", "renew"} => proc.got = {}

(* While hosts are asked to take the pin, each is asked once, and channels  *)
(* are those opened to hosts that did.                                      *)
Placing ==
    /\ proc.at \in {"offer", "fund"} =>
          /\ proc.todo \cap proc.got = {}
          /\ \A h \in Hosts : proc.chan[h] # NoChannel => h \in proc.got
    /\ proc.at = "fund" => proc.host \in proc.got /\ proc.chan[proc.host] = NoChannel

(* What a command that works on the entry on record knows of it.            *)
OnRecord ==
    /\ proc.cmd \in {"renew", "pass"} => record # NoRecord
    /\ proc.cmd = "renew" => proc.todo \cup proc.got \subseteq record.held /\ proc.expiry > 0
    /\ proc.cmd = "pass" => proc.rate = record.rate /\ proc.expiry = record.expiry
    /\ proc.cmd = "pass" /\ proc.at \in {"offer", "fund"} =>
          (proc.todo \cup proc.got) \cap record.held = {}
    /\ proc.cmd = "pass" /\ proc.at = "pay" =>
          \A h \in proc.todo : record.chan[h] # NoChannel
    /\ proc.cmd = "rm" =>
          record = NoRecord /\ \A h \in Hosts : proc.chan[h] # NoChannel => h \in proc.todo

(* Whose the open channels are.  ChannelsAccounted is not inductive: it     *)
(* says nothing of two hosts that a command has in hand, nor that what is   *)
(* loose is open, so that its id is not given out again.                    *)
OneEach(chan) == \A g, h \in Hosts : g # h /\ chan[g] # NoChannel => chan[g] # chan[h]

InUse == RecordedIds \cup Ids(proc.chan)

IdsInv ==
    /\ InUse \subseteq Open /\ loose \subseteq Open /\ Open \subseteq InUse \cup loose
    /\ RecordedIds \cap Ids(proc.chan) = {} /\ loose \cap InUse = {}
    /\ OneEach(proc.chan) /\ (record # NoRecord => OneEach(record.chan))

Typed == LifeTypeOK /\ proc \in ProcFields

LifeInv == Typed /\ Stages /\ Placing /\ OnRecord /\ IdsInv

----------------------------------------------------------------------------
(* The operators.                                                           *)

LEMMA MaxOfTwo ==
  ASSUME NEW a \in Nat, NEW b \in Nat
  PROVE  /\ Max({a, b}) \in {a, b} /\ Max({a, b}) \in Nat
         /\ Max({a, b}) >= a /\ Max({a, b}) >= b
  <1>1. \E x \in {a, b} : \A y \in {a, b} : x >= y
    <2>1. CASE a >= b
      BY <2>1
    <2>2. CASE b >= a
      BY <2>2
    <2> QED  BY <2>1, <2>2
  <1>2. Max({a, b}) \in {a, b} /\ \A y \in {a, b} : Max({a, b}) >= y
    BY <1>1 DEF Max
  <1> QED  BY <1>2

LEMMA Sizes ==
  /\ Bytes * Milli \in Nat /\ Bytes * Milli + Gib - 1 \in Nat
  /\ Gib \in Nat \ {0} /\ Bytes * Milli <= Bytes * Milli + Gib - 1
  <1>1. Bytes \in Nat /\ Milli \in Nat /\ Gib \in Nat \ {0}
    BY LifeAssumption
  <1>2. Bytes * Milli \in Nat
    BY <1>1
  <1> QED  BY <1>1, <1>2

LEMMA MoneyTypes ==
  ASSUME NEW rate \in Nat, NEW hours \in Nat, NEW expiry \in Nat, NEW t \in Nat
  PROVE  /\ LeaseHours(expiry, t) \in Nat /\ LeaseHours(expiry, t) >= 1
         /\ ChannelCapacity(rate, hours) \in Nat
         /\ RentOwed(rate, hours) \in Nat
  <1>1. ASSUME NEW a \in Nat, NEW b \in Nat \ {0}
        PROVE  a \div b \in Nat
    BY <1>1
  <1>2. LeaseHours(expiry, t) \in Nat /\ LeaseHours(expiry, t) >= 1
    <2> DEFINE left == IF expiry > t THEN expiry - t ELSE 0
    <2>1. left \in Nat
      OBVIOUS
    <2> HIDE DEF left
    <2>2. left \div BlocksPerHour \in Nat
      BY <1>1, <2>1, LifeAssumption
    <2> QED  BY <2>2, MaxOfTwo DEF LeaseHours, left
  <1> DEFINE up == (Bytes * Milli + Gib - 1) \div Gib
             down == (Bytes * Milli) \div Gib
  <1>3. up \in Nat /\ down \in Nat
    BY <1>1, Sizes
  <1> HIDE DEF up, down
  <1>4. Max({1, up}) \in Nat /\ Milli \in Nat \ {0} /\ Credit \in Nat
    BY <1>3, MaxOfTwo, LifeAssumption
  <1>5. rate * Max({1, up}) * hours \in Nat /\ rate * down * hours \in Nat
    BY <1>3, <1>4
  <1>6. /\ (rate * Max({1, up}) * hours) \div Milli \in Nat
        /\ (rate * down * hours) \div Milli \in Nat
    BY <1>1, <1>4, <1>5
  <1> QED  BY <1>2, <1>4, <1>6, MaxOfTwo DEF ChannelCapacity, RentOwed, up, down

LEMMA ChosenAreHosts ==
  ASSUME NEW n, NEW exclude, NEW hs \in Chosen(n, exclude)
  PROVE  hs \in SUBSET Hosts /\ hs \cap exclude = {}
  <1>1. PICK k \in 0..n : hs \in kSubset(k, Hosts \ exclude)
    BY DEF Chosen
  <1> QED  BY <1>1 DEF kSubset

LEMMA IdsOf ==
  ASSUME NEW chan \in Chans
  PROVE  /\ Ids(chan) \subseteq ChannelIds
         /\ \A i : i \in Ids(chan) <=> i # NoChannel /\ \E h \in Hosts : chan[h] = i
  BY LifeAssumption DEF Ids, Chans

LEMMA NoIds == NoChans \in Chans /\ Ids(NoChans) = {} /\ OneEach(NoChans)
  BY DEF NoChans, Ids, Chans, OneEach

LEMMA IdleTyped == Idle \in ProcFields /\ NoChallenge \in Challenges
  <1>1. NoChallenge \in Challenges
    BY DEF NoChallenge, Challenges
  <1> QED  BY <1>1, NoIds DEF Idle, ProcFields

LEMMA ProcFacts ==
  ASSUME proc \in ProcFields
  PROVE  /\ proc.todo \in SUBSET Hosts /\ proc.rate \in Nat /\ proc.expiry \in Nat
         /\ proc.host \in Hosts \cup {NoHost} /\ proc.challenge \in Challenges
         /\ proc.got \in SUBSET Hosts /\ proc.chan \in Chans
         /\ proc.passed \in SUBSET Hosts /\ proc.signed \in SUBSET Hosts
  BY DEF ProcFields

LEMMA RecordFacts ==
  ASSUME Typed, record # NoRecord
  PROVE  /\ record \in RecordFields
         /\ record.rate \in Nat /\ record.expiry \in Nat
         /\ record.held \in SUBSET Hosts /\ record.ok \in SUBSET Hosts
         /\ record.chan \in Chans /\ record.ok \subseteq record.held
         /\ \A h \in Hosts : record.chan[h] # NoChannel => h \in record.held
  BY DEF Typed, LifeTypeOK, RecordFields

LEMMA LifeInit == Init => LifeInv
  <1> SUFFICES ASSUME Init PROVE LifeInv
    OBVIOUS
  <1>1. proc = Idle /\ record = NoRecord /\ Open = {} /\ loose = {}
    BY DEF Init, Open
  <1>2. Typed
    BY <1>1, IdleTyped, NoIds, LifeAssumption
       DEF Init, Typed, LifeTypeOK, Idle
  <1>3. Stages /\ Placing /\ OnRecord
    BY <1>1 DEF Stages, Placing, OnRecord, Idle
  <1>4. IdsInv
    BY <1>1, NoIds DEF IdsInv, InUse, RecordedIds, Idle
  <1> QED  BY <1>2, <1>3, <1>4 DEF LifeInv

----------------------------------------------------------------------------
(* LifeInv, action by action.                                               *)

LEMMA SameIds ==
  ASSUME LifeInv, proc'.chan = proc.chan, UNCHANGED <<record, channel, loose>>
  PROVE  IdsInv'
  BY DEF LifeInv, IdsInv, InUse, RecordedIds, Open

LEMMA TypedKept ==
  ASSUME Typed, record' = record, tip' \in 0..MaxTip, lost' \subseteq Hosts,
         deal' \in [Hosts -> DealFields \cup {NoDeal}],
         pending' \in [Hosts -> DealFields \cup {NoDeal}],
         channel' \in [ChannelIds -> ChannelFields \cup {NoChannel}],
         proc' \in ProcFields
  PROVE  Typed'
  <1>1. /\ {proc'.todo, proc'.got, proc'.passed} \subseteq SUBSET Hosts
        /\ proc'.chan \in Chans
    BY DEF ProcFields
  <1> QED  BY <1>1 DEF Typed, LifeTypeOK

LEMMA ProcOnly ==
  ASSUME LifeInv, proc' \in ProcFields, proc'.chan = proc.chan,
         UNCHANGED <<tip, record, deal, lost, pending, channel, loose>>
  PROVE  Typed' /\ IdsInv'
  <1>1. LifeTypeOK'
    BY ProcFacts DEF LifeInv, Typed, LifeTypeOK, ProcFields
  <1> QED  BY <1>1, SameIds DEF Typed

(* A command goes on placing.                                               *)
LEMMA StillPlacing ==
  ASSUME LifeInv, record' = record, proc' \in ProcFields,
         proc.at \in {"offer", "fund"}, proc'.at \in {"offer", "fund"},
         proc'.cmd = proc.cmd, proc'.rate = proc.rate, proc'.expiry = proc.expiry,
         proc'.todo \cup proc'.got \subseteq proc.todo \cup proc.got, Placing'
  PROVE  Stages' /\ Placing' /\ OnRecord'
  <1>1. Stages'
    BY DEF LifeInv, Stages
  <1>2. OnRecord'
    <2>1. proc.cmd \in {"add", "pass"}
      BY DEF LifeInv, Stages, Typed, ProcFields
    <2> QED  BY <2>1 DEF LifeInv, OnRecord
  <1> QED  BY <1>1, <1>2

LEMMA OffersKeep ==
  ASSUME LifeInv, NEW h, Accept(h) \/ Decline(h) \/ GiveUp(h) \/ OpenFails
  PROVE  LifeInv'
  <1>0. /\ proc \in ProcFields /\ Placing /\ proc.at \in {"offer", "fund"}
        /\ UNCHANGED <<tip, record, channel, loose>> /\ lost' \subseteq Hosts
    BY DEF LifeInv, Typed, LifeTypeOK, Accept, Decline, GiveUp, OpenFails, Offering
  <1>1. /\ proc' \in ProcFields /\ proc'.at \in {"offer", "fund"}
        /\ proc'.cmd = proc.cmd /\ proc'.rate = proc.rate /\ proc'.expiry = proc.expiry
        /\ proc'.chan = proc.chan
        /\ proc'.todo \cup proc'.got \subseteq proc.todo \cup proc.got
        /\ Placing'
    <2>1. CASE Accept(h)
      <3>1. PICK to \in {"fund", "offer"} :
              proc' = [proc EXCEPT !.todo = @ \ {h}, !.got = @ \cup {h}, !.host = h, !.at = to]
        BY <2>1 DEF Accept
      <3>2. h \in proc.todo /\ proc.at = "offer"
        BY <2>1 DEF Accept, Offering
      <3>3. h \in Hosts
        BY <1>0, <3>2, ProcFacts
      <3>4. proc' \in ProcFields
        BY <1>0, <3>1, <3>3 DEF ProcFields
      <3>5. /\ proc'.at = to /\ proc'.cmd = proc.cmd /\ proc'.chan = proc.chan
            /\ proc'.rate = proc.rate /\ proc'.expiry = proc.expiry
            /\ proc'.host = h /\ proc'.todo = proc.todo \ {h} /\ proc'.got = proc.got \cup {h}
        BY <1>0, <3>1 DEF ProcFields
      <3> QED  BY <1>0, <3>2, <3>3, <3>4, <3>5 DEF Placing
    <2>2. CASE Decline(h) \/ GiveUp(h)
      <3>1. proc' = [proc EXCEPT !.todo = @ \ {h}] /\ proc.at = "offer"
        BY <2>2 DEF Decline, GiveUp, Offering
      <3> QED  BY <1>0, <3>1 DEF ProcFields, Placing
    <2>3. CASE OpenFails
      BY <1>0, <2>3 DEF OpenFails, ProcFields, Placing
    <2> QED  BY <2>1, <2>2, <2>3
  <1>2. Terms(proc.rate, proc.expiry) \in DealFields
    BY <1>0, ProcFacts DEF Terms, DealFields
  <1>3. Typed'
    <2>0. /\ deal \in [Hosts -> DealFields \cup {NoDeal}]
          /\ pending \in [Hosts -> DealFields \cup {NoDeal}]
      BY DEF LifeInv, Typed, LifeTypeOK
    <2>1. /\ deal' \in [Hosts -> DealFields \cup {NoDeal}]
          /\ pending' \in [Hosts -> DealFields \cup {NoDeal}]
      <3>1. CASE Accept(h)
        BY <1>2, <2>0, <3>1 DEF Accept
      <3>2. CASE Decline(h)
        BY <2>0, <3>2 DEF Decline
      <3>3. CASE GiveUp(h)
        BY <1>2, <2>0, <3>3 DEF GiveUp
      <3>4. CASE OpenFails
        BY <2>0, <3>4 DEF OpenFails
      <3> QED  BY <3>1, <3>2, <3>3, <3>4
    <2> QED  BY <1>0, <1>1, <2>1, TypedKept DEF LifeInv, Typed, LifeTypeOK
  <1>4. IdsInv'
    BY <1>0, <1>1, SameIds
  <1>5. Stages' /\ Placing' /\ OnRecord'
    BY <1>0, <1>1, StillPlacing
  <1> QED  BY <1>3, <1>4, <1>5 DEF LifeInv

LEMMA OpenKeeps ==
  ASSUME LifeInv, NEW heard \in BOOLEAN, OpenChannel(heard)
  PROVE  LifeInv'
  <1> DEFINE h == proc.host
             c == channel'[FreeId]
  <1>0. /\ proc \in ProcFields /\ Placing /\ Stages /\ OnRecord /\ IdsInv /\ Typed
        /\ proc.at = "fund" /\ UNCHANGED <<tip, record, deal, lost, pending>>
    BY DEF LifeInv, Typed, OpenChannel
  <1>1. FreeId \in ChannelIds \ Open /\ FreeId # NoChannel
    <2>1. \E i \in ChannelIds \ Open : TRUE
      BY DEF OpenChannel, Open
    <2>2. FreeId \in ChannelIds \ Open
      BY <2>1 DEF FreeId
    <2> QED  BY <2>2, LifeAssumption
  <1>2. h \in Hosts /\ h \in proc.got /\ proc.chan[h] = NoChannel /\ proc.chan \in Chans
    BY <1>0 DEF Placing, ProcFields
  <1>3. PICK new \in ChannelFields : channel' = [channel EXCEPT ![FreeId] = new]
    <2>1. PICK t \in TipAnswers :
            channel' = [channel EXCEPT ![FreeId] =
                [cap |-> ChannelCapacity(proc.rate, LeaseHours(proc.expiry, t)),
                 rate |-> proc.rate, paid |-> 0]]
      BY DEF OpenChannel
    <2>2. t \in Nat /\ proc.rate \in Nat /\ proc.expiry \in Nat
      BY <1>0, ProcFacts, LifeAssumption DEF TipAnswers, Typed, LifeTypeOK
    <2>3. ChannelCapacity(proc.rate, LeaseHours(proc.expiry, t)) \in Nat
      BY <2>2, MoneyTypes
    <2> QED  BY <2>1, <2>2, <2>3 DEF ChannelFields
  <1>4. PICK id \in {FreeId, NoChannel} :
          /\ id = IF heard THEN FreeId ELSE NoChannel
          /\ proc' = [proc EXCEPT !.at = "offer", !.host = NoHost, !.chan[h] = id]
          /\ loose' = IF heard THEN loose ELSE loose \cup {FreeId}
    <2>1. CASE heard
      BY <2>1 DEF OpenChannel
    <2>2. CASE ~heard
      BY <1>2, <2>2 DEF OpenChannel
    <2> QED  BY <2>1, <2>2
  <1> HIDE DEF h
  <1>5. /\ proc'.chan = [proc.chan EXCEPT ![h] = id] /\ proc'.chan \in Chans
        /\ proc' \in ProcFields /\ proc'.at = "offer" /\ proc'.cmd = proc.cmd
        /\ proc'.rate = proc.rate /\ proc'.expiry = proc.expiry
        /\ proc'.todo = proc.todo /\ proc'.got = proc.got
        /\ proc'.passed = proc.passed
    <2>1. [proc.chan EXCEPT ![h] = id] \in Chans
      BY <1>1, <1>2, <1>4 DEF Chans
    <2> QED  BY <1>0, <1>4, <2>1 DEF ProcFields
  <1>6. Placing'
    BY <1>0, <1>2, <1>5 DEF Placing, Chans
  <1>7. Open' = Open \cup {FreeId} /\ channel' \in [ChannelIds -> ChannelFields \cup {NoChannel}]
    <2>1. channel \in [ChannelIds -> ChannelFields \cup {NoChannel}]
      BY <1>0 DEF Typed, LifeTypeOK
    <2> QED  BY <1>1, <1>3, <2>1, LifeAssumption DEF Open
  <1>8. Typed'
    BY <1>0, <1>5, <1>7, TypedKept DEF Typed, LifeTypeOK
  <1>9. Ids(proc'.chan) = Ids(proc.chan) \cup ({id} \ {NoChannel})
    BY <1>2, <1>5, IdsOf DEF Chans
  <1>10. RecordedIds' = RecordedIds
    BY <1>0 DEF RecordedIds
  <1>11. OneEach(proc'.chan)
    BY <1>0, <1>1, <1>2, <1>4, <1>5, IdsOf DEF OneEach, Chans, IdsInv, InUse
  <1>12. IdsInv'
    <2>1. CASE heard
      BY <1>0, <1>1, <1>4, <1>7, <1>9, <1>10, <1>11, <2>1 DEF IdsInv, InUse
    <2>2. CASE ~heard
      BY <1>0, <1>1, <1>4, <1>7, <1>9, <1>10, <1>11, <2>2 DEF IdsInv, InUse
    <2> QED  BY <2>1, <2>2
  <1>13. Stages' /\ Placing' /\ OnRecord'
    BY <1>0, <1>5, <1>6, StillPlacing
  <1> QED  BY <1>8, <1>12, <1>13 DEF LifeInv

(* A command that takes its start from Idle holds no channel yet.           *)
LEMMA StartsKeep ==
  ASSUME LifeInv, AddStart \/ RenewStart \/ PassStart
  PROVE  LifeInv'
  <1>0. /\ Typed /\ Stages /\ IdsInv /\ proc = Idle
        /\ UNCHANGED <<tip, record, deal, lost, pending, channel, loose>>
    BY DEF LifeInv, Stages, AddStart, RenewStart, PassStart
  <1>1. tip \in Nat
    BY <1>0, LifeAssumption DEF Typed, LifeTypeOK
  <1>2. PICK cmd \in {"add", "renew", "pass"}, at \in {"offer", "renew", "audit"},
             todo \in SUBSET Hosts, rate \in Nat, expiry \in Nat :
          /\ proc' = [Idle EXCEPT !.cmd = cmd, !.at = at, !.todo = todo,
                                  !.rate = rate, !.expiry = expiry]
          /\ cmd = "add" => at = "offer"
          /\ cmd = "renew" => /\ at = "renew" /\ record # NoRecord
                              /\ todo \subseteq record.held /\ expiry > 0
          /\ cmd = "pass" => /\ at = "audit" /\ record # NoRecord
                             /\ rate = record.rate /\ expiry = record.expiry
    <2>1. CASE AddStart
      <3>1. PICK rate \in Rates, span \in Spans, hs \in Chosen(Desired, {}) :
              \E expiry \in {0} \cup {tip + s : s \in {span} \ {0}} :
                 proc' = [Idle EXCEPT !.cmd = "add", !.at = "offer", !.todo = hs,
                                      !.rate = rate, !.expiry = expiry]
        BY <2>1 DEF AddStart
      <3>2. PICK expiry \in {0} \cup {tip + s : s \in {span} \ {0}} :
                 proc' = [Idle EXCEPT !.cmd = "add", !.at = "offer", !.todo = hs,
                                      !.rate = rate, !.expiry = expiry]
        BY <3>1
      <3>3. rate \in Nat /\ expiry \in Nat /\ hs \in SUBSET Hosts
        BY <1>1, ChosenAreHosts, LifeAssumption
      <3> QED  BY <3>2, <3>3
    <2>2. CASE RenewStart
      <3>1. PICK rate \in RenewRates \cup {record.rate}, span \in RenewSpans, t \in TipAnswers :
              proc' = [Idle EXCEPT !.cmd = "renew", !.at = "renew", !.todo = record.held,
                                   !.rate = rate, !.expiry = t + span]
        BY <2>2 DEF RenewStart
      <3>2. record # NoRecord
        BY <2>2 DEF RenewStart
      <3>3. record.rate \in Nat /\ record.held \in SUBSET Hosts
        BY <1>0, <3>2, RecordFacts
      <3>4. rate \in Nat /\ t + span \in Nat /\ t + span > 0
        BY <1>1, <3>3, LifeAssumption DEF TipAnswers
      <3> QED  BY <3>1, <3>2, <3>3, <3>4
    <2>3. CASE PassStart
      BY <1>0, <2>3, RecordFacts DEF PassStart
    <2> QED  BY <2>1, <2>2, <2>3
  <1>3. /\ proc' \in ProcFields /\ proc'.cmd = cmd /\ proc'.at = at /\ proc'.todo = todo
        /\ proc'.rate = rate /\ proc'.expiry = expiry
        /\ proc'.got = {} /\ proc'.chan = NoChans /\ proc.chan = NoChans
    <2>1. NoChallenge \in Challenges /\ NoChans \in Chans
      BY IdleTyped, NoIds
    <2> QED  BY <1>0, <1>2, <2>1 DEF Idle, ProcFields
  <1>4. Typed' /\ IdsInv'
    BY <1>0, <1>3, ProcOnly
  <1>5. Stages'
    BY <1>2, <1>3 DEF Stages
  <1>6. Placing'
    BY <1>2, <1>3 DEF Placing, NoChans
  <1>7. OnRecord'
    BY <1>0, <1>2, <1>3 DEF OnRecord
  <1> QED  BY <1>4, <1>5, <1>6, <1>7 DEF LifeInv

(* The offers to the holders of a renewal.                                  *)
LEMMA RenewalsKeep ==
  ASSUME LifeInv, NEW h \in Hosts, Renew(h) \/ RenewFails(h)
  PROVE  LifeInv'
  <1>0. /\ proc \in ProcFields /\ Typed /\ Stages /\ OnRecord /\ IdsInv
        /\ proc.at = "renew" /\ h \in proc.todo
        /\ UNCHANGED <<tip, record, lost, pending, channel, loose>>
    BY DEF LifeInv, Typed, Renew, RenewFails
  <1>1. proc.cmd = "renew" /\ record # NoRecord
    BY <1>0 DEF Stages, ProcFields, OnRecord
  <1>2. /\ proc' \in ProcFields /\ proc'.at = "renew" /\ proc'.cmd = "renew"
        /\ proc'.rate = proc.rate /\ proc'.expiry = proc.expiry /\ proc'.chan = proc.chan
        /\ proc'.todo \cup proc'.got \subseteq proc.todo \cup proc.got
    <2>1. CASE Renew(h)
      BY <1>0, <1>1, <2>1 DEF Renew, ProcFields
    <2>2. CASE RenewFails(h)
      BY <1>0, <1>1, <2>2 DEF RenewFails, ProcFields
    <2> QED  BY <2>1, <2>2
  <1>3. deal' \in [Hosts -> DealFields \cup {NoDeal}]
    <2>1. deal \in [Hosts -> DealFields \cup {NoDeal}]
      BY <1>0 DEF Typed, LifeTypeOK
    <2>2. CASE Renew(h)
      <3>1. deal[h] \in DealFields
        BY <2>1, <2>2 DEF Renew
      <3>2. Extended(deal[h], proc.rate, proc.expiry) \in DealFields
        BY <1>0, <3>1 DEF Extended, DealFields, ProcFields
      <3> QED  BY <2>1, <2>2, <3>2 DEF Renew
    <2>3. CASE RenewFails(h)
      BY <2>1, <2>3 DEF RenewFails
    <2> QED  BY <2>2, <2>3
  <1>4. Typed'
    BY <1>0, <1>2, <1>3, TypedKept DEF Typed, LifeTypeOK
  <1>5. IdsInv'
    BY <1>0, <1>2, SameIds
  <1>6. Stages' /\ Placing' /\ OnRecord'
    BY <1>0, <1>1, <1>2 DEF Stages, Placing, OnRecord
  <1> QED  BY <1>4, <1>5, <1>6 DEF LifeInv

(* Back to Idle, with the entry changed: what the rest of the invariant     *)
(* needs of the new entry and of what is loose.                             *)
LEMMA EndsKeep ==
  ASSUME LifeInv, proc' = Idle,
         deal' = deal, lost' = lost, pending' = pending, tip' = tip, channel' = channel,
         record' \in RecordFields \cup {NoRecord},
         record' # NoRecord =>
            /\ record'.ok \subseteq record'.held
            /\ \A h \in Hosts : record'.chan[h] # NoChannel => h \in record'.held
            /\ OneEach(record'.chan),
         RecordedIds' \cup loose' = InUse \cup loose, RecordedIds' \cap loose' = {}
  PROVE  LifeInv'
  <1>1. Typed'
    BY IdleTyped, ProcFacts, NoIds DEF LifeInv, Typed, LifeTypeOK, ProcFields, Idle
  <1>2. Stages' /\ Placing' /\ OnRecord'
    BY DEF Stages, Placing, OnRecord, Idle, NoChans
  <1>3. IdsInv'
    <2>1. Ids(proc'.chan) = {} /\ OneEach(proc'.chan)
      BY NoIds DEF Idle
    <2>2. Open' = Open
      BY DEF Open
    <2> QED  BY <2>1, <2>2 DEF LifeInv, IdsInv, InUse
  <1> QED  BY <1>1, <1>2, <1>3 DEF LifeInv

LEMMA SavesKeep ==
  ASSUME LifeInv, AddSave \/ RenewSave \/ PassSave
  PROVE  LifeInv'
  <1>0. /\ proc \in ProcFields /\ Typed /\ Stages /\ Placing /\ OnRecord /\ IdsInv
        /\ proc' = Idle /\ UNCHANGED <<tip, deal, lost, pending, channel>>
    BY DEF LifeInv, Typed, AddSave, RenewSave, PassSave
  <1>1. /\ proc.rate \in Nat /\ proc.expiry \in Nat /\ proc.got \in SUBSET Hosts
        /\ proc.chan \in Chans /\ proc.passed \in SUBSET Hosts
    BY <1>0, ProcFacts
  <1>2. CASE AddSave
    <2>1. /\ record' = [rate |-> proc.rate, expiry |-> proc.expiry, held |-> proc.got,
                        ok |-> proc.got, chan |-> proc.chan]
          /\ loose' = loose \cup RecordedIds /\ proc.at = "offer"
      BY <1>2 DEF AddSave
    <2>2. record' \in RecordFields /\ record' # NoRecord
      BY <1>1, <2>1, LifeAssumption DEF RecordFields
    <2>3. /\ record'.ok \subseteq record'.held
          /\ \A h \in Hosts : record'.chan[h] # NoChannel => h \in record'.held
          /\ OneEach(record'.chan)
      BY <1>0, <2>1 DEF Placing, IdsInv
    <2>4. RecordedIds' = Ids(proc.chan)
      BY <2>1, <2>2 DEF RecordedIds
    <2>5. /\ RecordedIds' \cup loose' = InUse \cup loose
          /\ RecordedIds' \cap loose' = {}
      BY <1>0, <2>1, <2>4 DEF IdsInv, InUse
    <2> QED  BY <1>0, <2>2, <2>3, <2>5, EndsKeep
  <1>3. CASE RenewSave
    <2>1. /\ record' = [record EXCEPT !.rate = proc.rate, !.expiry = proc.expiry]
          /\ loose' = loose /\ proc.at = "renew"
      BY <1>3 DEF RenewSave, RenewDone
    <2>2. record # NoRecord /\ proc.chan = NoChans
      BY <1>0, <2>1 DEF Stages, OnRecord, ProcFields
    <2>3. record \in RecordFields
      BY <1>0, <2>2, RecordFacts
    <2>4. /\ record' \in RecordFields /\ record' # NoRecord
          /\ record'.chan = record.chan /\ record'.held = record.held
          /\ record'.ok = record.ok
      BY <1>1, <2>1, <2>3, LifeAssumption DEF RecordFields
    <2>5. RecordedIds' = RecordedIds /\ Ids(proc.chan) = {}
      BY <2>2, <2>4, NoIds DEF RecordedIds
    <2>6. /\ record'.ok \subseteq record'.held
          /\ \A h \in Hosts : record'.chan[h] # NoChannel => h \in record'.held
          /\ OneEach(record'.chan)
      BY <1>0, <2>2, <2>4, RecordFacts DEF IdsInv
    <2>7. /\ RecordedIds' \cup loose' = InUse \cup loose
          /\ RecordedIds' \cap loose' = {}
      BY <1>0, <2>1, <2>5 DEF IdsInv, InUse
    <2> QED  BY <1>0, <2>4, <2>6, <2>7, EndsKeep
  <1>4. CASE PassSave
    <2>1. /\ record' = [record EXCEPT
                !.held = @ \cup proc.got,
                !.ok = (record.held \cap proc.passed) \cup proc.got,
                !.chan = [h \in Hosts |-> IF h \in proc.got THEN proc.chan[h] ELSE @[h]]]
          /\ loose' = loose /\ proc.cmd = "pass" /\ proc.at = "offer"
      BY <1>4 DEF PassSave, PassDone
    <2> DEFINE joined == [h \in Hosts |-> IF h \in proc.got THEN proc.chan[h]
                                          ELSE record.chan[h]]
    <2>2. record # NoRecord /\ proc.got \cap record.held = {}
      BY <1>0, <2>1 DEF OnRecord
    <2>3. /\ record \in RecordFields /\ record.chan \in Chans
          /\ record.held \in SUBSET Hosts
          /\ \A h \in Hosts : record.chan[h] # NoChannel => h \in record.held
      BY <1>0, <2>2, RecordFacts
    <2>4. joined \in Chans
      BY <1>1, <2>3 DEF Chans
    <2>5. \A h \in Hosts :
            joined[h] = IF h \in proc.got THEN proc.chan[h] ELSE record.chan[h]
      OBVIOUS
    <2>6. /\ record' = [record EXCEPT !.held = record.held \cup proc.got,
                          !.ok = (record.held \cap proc.passed) \cup proc.got,
                          !.chan = joined]
      BY <2>1
    <2> HIDE DEF joined
    <2>7. /\ record' \in RecordFields /\ record' # NoRecord /\ record'.chan = joined
          /\ record'.held = record.held \cup proc.got
          /\ record'.ok = (record.held \cap proc.passed) \cup proc.got
      <3>1. /\ record.held \cup proc.got \in SUBSET Hosts
            /\ (record.held \cap proc.passed) \cup proc.got \in SUBSET Hosts
        BY <1>1, <2>3
      <3>2. record' \in RecordFields
        BY <2>3, <2>4, <2>6, <3>1 DEF RecordFields
      <3>3. /\ record'.chan = joined /\ record'.held = record.held \cup proc.got
            /\ record'.ok = (record.held \cap proc.passed) \cup proc.got
        BY <2>3, <2>6 DEF RecordFields
      <3> QED  BY <3>2, <3>3, LifeAssumption
    <2>8. \A h \in Hosts : /\ proc.chan[h] # NoChannel => joined[h] = proc.chan[h]
                           /\ record.chan[h] # NoChannel => joined[h] = record.chan[h]
      BY <1>0, <2>1, <2>2, <2>3, <2>5 DEF Placing
    <2>9. Ids(joined) = Ids(record.chan) \cup Ids(proc.chan)
      BY <1>1, <2>3, <2>4, <2>5, <2>8, IdsOf
    <2>10. RecordedIds' = InUse /\ RecordedIds = Ids(record.chan)
      BY <2>2, <2>7, <2>9 DEF RecordedIds, InUse
    <2>11. OneEach(joined)
      <3>1. OneEach(proc.chan) /\ OneEach(record.chan)
            /\ Ids(record.chan) \cap Ids(proc.chan) = {}
        BY <1>0, <2>2, <2>10 DEF IdsInv
      <3> QED  BY <1>1, <2>3, <2>5, <3>1, IdsOf DEF OneEach
    <2>12. /\ record'.ok \subseteq record'.held
           /\ \A h \in Hosts : record'.chan[h] # NoChannel => h \in record'.held
      BY <1>0, <2>1, <2>3, <2>5, <2>7 DEF Placing
    <2> QED  BY <1>0, <2>1, <2>7, <2>10, <2>11, <2>12, EndsKeep DEF IdsInv
  <1> QED  BY <1>2, <1>3, <1>4

(* The end of rm, and a kill.                                               *)
LEMMA StopsKeep ==
  ASSUME LifeInv, RmEnd \/ Kill
  PROVE  LifeInv'
  <1>0. /\ Typed /\ Stages /\ OnRecord /\ IdsInv
        /\ proc' = Idle /\ UNCHANGED <<tip, record, deal, lost, pending, channel>>
    BY DEF LifeInv, RmEnd, Kill
  <1>1. record # NoRecord => OneEach(record.chan)
    BY <1>0 DEF IdsInv
  <1>2. RecordedIds' = RecordedIds /\ record \in RecordFields \cup {NoRecord}
    BY <1>0 DEF RecordedIds, Typed, LifeTypeOK
  <1>3. loose' = loose \cup Ids(proc.chan)
    <2>1. CASE RmEnd
      <3>1. proc.chan \in Chans /\ \A h \in Hosts : proc.chan[h] = NoChannel
        BY <1>0, <2>1, ProcFacts DEF RmEnd, Stages, OnRecord, Typed, ProcFields
      <3> QED  BY <2>1, <3>1, IdsOf DEF RmEnd
    <2>2. CASE Kill
      BY <2>2 DEF Kill
    <2> QED  BY <2>1, <2>2
  <1> QED  BY <1>0, <1>1, <1>2, <1>3, RecordFacts, EndsKeep DEF IdsInv, InUse

(* The steps of a pass before it places.                                    *)
LEMMA AuditsKeep ==
  ASSUME LifeInv, NEW h,
         Challenge(h) \/ Gate \/ Prove \/ AuditFails(h) \/ Audited \/ PayFails(h) \/ Plan
  PROVE  LifeInv'
  <1>0. /\ proc \in ProcFields /\ Typed /\ Stages /\ Placing /\ OnRecord /\ IdsInv
        /\ proc.at \in {"audit", "gate", "prove", "pay"}
        /\ UNCHANGED <<tip, record, deal, lost, pending, channel, loose>>
    BY DEF LifeInv, Typed, Challenge, Gate, Prove, AuditFails, Audited, PayFails, Plan
  <1>1. /\ proc.cmd = "pass" /\ record # NoRecord /\ proc.chan = NoChans
        /\ proc.got = {} /\ tip \in 0..MaxTip
    BY <1>0 DEF Stages, OnRecord, ProcFields, Typed, LifeTypeOK
  <1>2. /\ record.held \in SUBSET Hosts /\ record.ok \in SUBSET Hosts
    BY <1>0, <1>1, RecordFacts
  <1>3. /\ proc' \in ProcFields /\ proc'.cmd = "pass" /\ proc'.got = {}
        /\ proc'.chan = NoChans /\ proc'.rate = proc.rate /\ proc'.expiry = proc.expiry
        /\ proc'.at \in {"audit", "gate", "prove", "pay", "offer"}
        /\ proc'.at \in {"gate", "prove"} => proc'.host \in Hosts
        /\ proc'.at = "pay" => \A g \in proc'.todo : record.chan[g] # NoChannel
        /\ proc'.at = "offer" => proc'.todo \cap record.held = {}
    <2>1. CASE Challenge(h)
      <3>1. ChallengeIndex(tip) \in Nat
        <4>1. Chunks \in Nat /\ Digest[tip] \in Nat
          BY <1>1, LifeAssumption
        <4> QED  BY <4>1 DEF ChallengeIndex
      <3>2. PICK ch \in Challenges :
              proc' = [proc EXCEPT !.at = "gate", !.todo = @ \ {h}, !.host = h,
                                   !.challenge = ch]
        <4>1. [index |-> ChallengeIndex(tip), nonce |-> <<tip, ChallengeIndex(tip)>>]
                \in Challenges
          BY <1>1, <3>1, LifeAssumption DEF Challenges
        <4> QED  BY <2>1, <4>1 DEF Challenge, NonceFromSeed
      <3>3. h \in Hosts
        BY <1>0, <2>1, ProcFacts DEF Challenge
      <3> QED  BY <1>0, <1>1, <3>2, <3>3 DEF ProcFields
    <2>2. CASE Gate
      BY <1>0, <1>1, <2>2 DEF Gate, ProcFields, Stages
    <2>3. CASE Prove
      <3>1. PICK passed \in SUBSET Hosts :
              proc' = [proc EXCEPT !.at = "audit", !.host = NoHost,
                                   !.challenge = NoChallenge, !.passed = passed]
        <4>1. proc.host \in Hosts /\ proc.passed \in SUBSET Hosts
          BY <1>0, <2>3, ProcFacts DEF Prove, Stages
        <4> QED  BY <2>3, <4>1 DEF Prove
      <3> QED  BY <1>0, <1>1, <3>1, IdleTyped DEF ProcFields
    <2>4. CASE AuditFails(h)
      <3>1. proc' = [proc EXCEPT !.at = "audit", !.todo = @ \ {h}, !.host = NoHost,
                                 !.challenge = NoChallenge]
        BY <2>4 DEF AuditFails
      <3> QED  BY <1>0, <1>1, <3>1, IdleTyped DEF ProcFields
    <2>5. CASE Audited
      <3>1. PICK due \in SUBSET Hosts :
              /\ proc' = [proc EXCEPT !.at = "pay", !.todo = due]
              /\ \A g \in due : record.chan[g] # NoChannel
        BY <1>2, <2>5 DEF Audited
      <3> QED  BY <1>0, <1>1, <3>1 DEF ProcFields
    <2>6. CASE PayFails(h)
      BY <1>0, <1>1, <2>6 DEF PayFails, ProcFields, OnRecord
    <2>7. CASE Plan
      <3> DEFINE healthy == Cardinality(record.held \cap proc.passed)
                 toPlace == IF healthy < Desired THEN Desired - healthy ELSE 0
      <3>1. PICK hs \in Chosen(toPlace, record.held) :
              proc' = [proc EXCEPT !.at = "offer", !.todo = hs, !.signed = {}]
        BY <2>7 DEF Plan
      <3>2. hs \in SUBSET Hosts /\ hs \cap record.held = {}
        BY ChosenAreHosts
      <3> HIDE DEF toPlace
      <3> QED  BY <1>0, <1>1, <3>1, <3>2 DEF ProcFields
    <2> QED  BY <2>1, <2>2, <2>3, <2>4, <2>5, <2>6, <2>7
  <1>4. Typed' /\ IdsInv'
    BY <1>0, <1>1, <1>3, ProcOnly
  <1>5. Stages' /\ Placing' /\ OnRecord'
    <2>1. Stages'
      BY <1>3 DEF Stages
    <2>2. Placing'
      BY <1>3 DEF Placing, NoChans
    <2>3. OnRecord'
      BY <1>0, <1>1, <1>3 DEF OnRecord
    <2> QED  BY <2>1, <2>2, <2>3
  <1> QED  BY <1>4, <1>5 DEF LifeInv

(* A receipt goes to an open channel, and changes only what is paid on it.  *)
LEMMA PayTo ==
  ASSUME LifeInv, NEW h \in Hosts, Pay(h)
  PROVE  LET i == record.chan[h]
             paid == Max({channel[i].paid, RentOwed(record.rate, 1)})
         IN  /\ i \in Open /\ channel[i] \in ChannelFields /\ record.rate \in Nat
             /\ paid \in Nat
             /\ channel' = [channel EXCEPT ![i] = [channel[i] EXCEPT !.paid = paid]]
  <1> DEFINE i == record.chan[h]
             paid == Max({channel[i].paid, RentOwed(record.rate, 1)})
  <1>0. /\ proc \in ProcFields /\ Typed /\ Stages /\ OnRecord /\ IdsInv
        /\ proc.at = "pay" /\ h \in proc.todo
    BY DEF LifeInv, Typed, Pay
  <1>1. proc.cmd = "pass" /\ record # NoRecord
    BY <1>0 DEF Stages, OnRecord, ProcFields
  <1>2. record.chan \in Chans /\ record.rate \in Nat /\ i # NoChannel
    BY <1>0, <1>1, RecordFacts DEF OnRecord
  <1>3. i \in Open
    <2>1. i \in RecordedIds
      BY <1>1, <1>2, IdsOf DEF RecordedIds
    <2> QED  BY <1>0, <2>1 DEF IdsInv, InUse
  <1>4. channel[i] \in ChannelFields
    BY <1>0, <1>3 DEF Typed, LifeTypeOK, Open
  <1>5. paid \in Nat
    BY <1>2, <1>4, MoneyTypes, MaxOfTwo DEF ChannelFields
  <1> QED  BY <1>2, <1>3, <1>4, <1>5 DEF Pay

LEMMA PayKeeps ==
  ASSUME LifeInv, NEW h \in Hosts, Pay(h)
  PROVE  LifeInv'
  <1>0. /\ proc \in ProcFields /\ Typed /\ Stages /\ Placing /\ OnRecord /\ IdsInv
        /\ proc.at = "pay" /\ UNCHANGED <<tip, record, deal, lost, pending, loose>>
    BY DEF LifeInv, Typed, Pay
  <1>1. proc.cmd = "pass" /\ record # NoRecord /\ proc.got = {} /\ proc.chan = NoChans
    BY <1>0 DEF Stages, OnRecord, ProcFields
  <1>2. PICK i \in Open, paid \in Nat :
          /\ channel[i] \in ChannelFields
          /\ channel' = [channel EXCEPT ![i] = [channel[i] EXCEPT !.paid = paid]]
    BY PayTo
  <1>3. /\ channel' \in [ChannelIds -> ChannelFields \cup {NoChannel}]
        /\ Open' = Open
    <2>1. [channel[i] EXCEPT !.paid = paid] \in ChannelFields
      BY <1>2 DEF ChannelFields
    <2>2. channel \in [ChannelIds -> ChannelFields \cup {NoChannel}]
      BY <1>0 DEF Typed, LifeTypeOK
    <2> QED  BY <1>2, <2>1, <2>2, LifeAssumption DEF Open
  <1>4. /\ proc' \in ProcFields /\ proc'.cmd = proc.cmd /\ proc'.at = "pay"
        /\ proc'.rate = proc.rate /\ proc'.expiry = proc.expiry
        /\ proc'.todo \subseteq proc.todo /\ proc'.got = {} /\ proc'.chan = NoChans
    BY <1>0, <1>1 DEF Pay, ProcFields
  <1>5. Typed'
    BY <1>0, <1>3, <1>4, TypedKept DEF Typed, LifeTypeOK
  <1>6. IdsInv'
    BY <1>0, <1>1, <1>3, <1>4 DEF IdsInv, InUse, RecordedIds
  <1>7. Stages' /\ Placing' /\ OnRecord'
    <2>1. Stages' /\ Placing'
      BY <1>1, <1>4 DEF Stages, Placing
    <2>2. OnRecord'
      BY <1>0, <1>1, <1>4 DEF OnRecord
    <2> QED  BY <2>1, <2>2
  <1> QED  BY <1>5, <1>6, <1>7 DEF LifeInv

LEMMA RmKeeps ==
  ASSUME LifeInv, Rm \/ RmLocal
  PROVE  LifeInv'
  <1>0. /\ Typed /\ Stages /\ IdsInv /\ proc = Idle /\ record # NoRecord
        /\ record' = NoRecord /\ UNCHANGED <<tip, deal, lost, pending, channel>>
    BY DEF LifeInv, Stages, Rm, RmLocal
  <1>1. /\ record \in RecordFields /\ record.chan \in Chans /\ record.held \in SUBSET Hosts
        /\ \A h \in Hosts : record.chan[h] # NoChannel => h \in record.held
    BY <1>0, RecordFacts
  <1>2. CASE Rm
    <2>1. proc' = [Idle EXCEPT !.cmd = "rm", !.at = "release", !.todo = record.held,
                               !.chan = record.chan] /\ loose' = loose
      BY <1>2 DEF Rm
    <2>2. /\ proc' \in ProcFields /\ proc'.cmd = "rm" /\ proc'.at = "release"
          /\ proc'.todo = record.held /\ proc'.got = {} /\ proc'.chan = record.chan
      <3>1. proc' \in ProcFields
        BY <1>1, <2>1, IdleTyped DEF ProcFields
      <3>2. /\ proc'.cmd = "rm" /\ proc'.at = "release" /\ proc'.todo = record.held
            /\ proc'.got = {} /\ proc'.chan = record.chan
        BY <2>1 DEF Idle
      <3> QED  BY <3>1, <3>2
    <2>3. Typed'
      <3>1. {proc'.todo, proc'.got, proc'.passed} \subseteq SUBSET Hosts
        BY <2>2 DEF ProcFields
      <3> QED  BY <1>0, <1>1, <2>2, <3>1 DEF Typed, LifeTypeOK
    <2>4. Stages' /\ Placing' /\ OnRecord'
      BY <1>0, <1>1, <2>2 DEF Stages, Placing, OnRecord
    <2>5. RecordedIds' = {} /\ RecordedIds = Ids(proc'.chan) /\ Ids(proc.chan) = {}
      BY <1>0, <2>2, NoIds DEF RecordedIds, Idle
    <2>6. Open' = Open /\ OneEach(proc'.chan)
      BY <1>0, <2>2 DEF Open, IdsInv
    <2>7. IdsInv'
      BY <1>0, <2>1, <2>5, <2>6 DEF IdsInv, InUse
    <2> QED  BY <2>3, <2>4, <2>7 DEF LifeInv
  <1>3. CASE RmLocal
    <2>1. proc' = Idle /\ loose' = loose \cup RecordedIds /\ RecordedIds' = {}
      BY <1>0, <1>3 DEF RmLocal, RecordedIds
    <2>2. Ids(proc.chan) = {}
      BY <1>0, NoIds DEF Idle
    <2> QED  BY <1>0, <2>1, <2>2, EndsKeep DEF IdsInv, InUse
  <1> QED  BY <1>2, <1>3

(* A channel leaves the hands of rm either closed or accepted as loose.     *)
LEMMA ReleasesKeep ==
  ASSUME LifeInv, NEW h \in Hosts,
         ReleaseFails(h) \/ \E expired \in BOOLEAN : Release(h, expired)
  PROVE  LifeInv'
  <1> DEFINE id == proc.chan[h]
  <1>0. /\ proc \in ProcFields /\ Typed /\ Stages /\ OnRecord /\ IdsInv
        /\ proc.at = "release" /\ h \in proc.todo
        /\ proc' = [proc EXCEPT !.todo = @ \ {h}, !.chan[h] = NoChannel]
        /\ UNCHANGED <<tip, record, lost, pending>>
    BY DEF LifeInv, Typed, ReleaseFails, Release
  <1>1. /\ proc.cmd = "rm" /\ record = NoRecord /\ proc.chan \in Chans
        /\ \A g \in Hosts : proc.chan[g] # NoChannel => g \in proc.todo
    BY <1>0 DEF Stages, OnRecord, ProcFields
  <1>2. PICK shut \in BOOLEAN :
          /\ shut => /\ loose' = loose
                     /\ channel' = [i \in ChannelIds |->
                            IF i \in {id} \ {NoChannel} THEN NoChannel ELSE channel[i]]
          /\ ~shut => loose' = loose \cup ({id} \ {NoChannel}) /\ channel' = channel
    <2>1. CASE ReleaseFails(h)
      BY <2>1 DEF ReleaseFails
    <2>2. CASE \E expired \in BOOLEAN : Release(h, expired)
      <3>1. PICK expired \in BOOLEAN : Release(h, expired)
        BY <2>2
      <3> QED  BY <3>1 DEF Release
    <2> QED  BY <2>1, <2>2
  <1> HIDE DEF id
  <1>3. /\ proc'.chan = [proc.chan EXCEPT ![h] = NoChannel]
        /\ proc'.chan \in Chans /\ proc' \in ProcFields
        /\ proc'.cmd = "rm" /\ proc'.at = "release" /\ proc'.got = proc.got
        /\ proc'.todo = proc.todo \ {h}
    <2>1. [proc.chan EXCEPT ![h] = NoChannel] \in Chans
      BY <1>1 DEF Chans
    <2> QED  BY <1>0, <1>1, <2>1 DEF ProcFields
  <1>4. deal' \in [Hosts -> DealFields \cup {NoDeal}]
    <2>1. deal \in [Hosts -> DealFields \cup {NoDeal}]
      BY <1>0 DEF Typed, LifeTypeOK
    <2>2. deal' \in {deal, [deal EXCEPT ![h] = NoDeal]}
      BY DEF ReleaseFails, Release
    <2> QED  BY <2>1, <2>2
  <1>5. channel \in [ChannelIds -> ChannelFields \cup {NoChannel}]
    BY <1>0 DEF Typed, LifeTypeOK
  <1>6. channel' \in [ChannelIds -> ChannelFields \cup {NoChannel}]
    BY <1>2, <1>5
  <1>7. Typed'
    BY <1>0, <1>3, <1>4, <1>5, <1>6, TypedKept DEF Typed, LifeTypeOK
  <1>8. Stages' /\ Placing' /\ OnRecord'
    BY <1>0, <1>1, <1>3 DEF Stages, Placing, OnRecord, Chans
  <1>9. /\ Ids(proc'.chan) = Ids(proc.chan) \ {id}
        /\ id # NoChannel => id \in Ids(proc.chan)
        /\ OneEach(proc'.chan)
    BY <1>0, <1>1, <1>3, IdsOf DEF IdsInv, OneEach, Chans, id
  <1>10. RecordedIds = {} /\ RecordedIds' = {}
    BY <1>0, <1>1 DEF RecordedIds
  <1>11. IdsInv'
    <2>1. CASE shut
      <3>1. Open' = Open \ {id}
        BY <1>2, <2>1, <1>5, LifeAssumption DEF Open
      <3>2. NoChannel \notin Open
        BY LifeAssumption DEF Open
      <3> QED  BY <1>0, <1>1, <1>2, <1>9, <1>10, <2>1, <3>1, <3>2 DEF IdsInv, InUse
    <2>2. CASE ~shut
      <3>1. Open' = Open
        BY <1>2, <2>2 DEF Open
      <3>2. NoChannel \notin Ids(proc.chan)
        BY DEF Ids
      <3> QED  BY <1>0, <1>1, <1>2, <1>9, <1>10, <2>2, <3>1, <3>2 DEF IdsInv, InUse
    <2> QED  BY <2>1, <2>2
  <1> QED  BY <1>7, <1>8, <1>11 DEF LifeInv

(* At the hosts and on the chain: the publisher's side stands still.        *)
LEMMA OthersKeep ==
  ASSUME LifeInv, HostStep \/ Mine
  PROVE  LifeInv'
  <1>0. Typed /\ IdsInv /\ UNCHANGED <<record, channel, proc, loose>>
    BY DEF LifeInv, HostStep, Land, Abandon, Collect, Evict, LoseBytes, Mine
  <1>1. /\ deal \in [Hosts -> DealFields \cup {NoDeal}]
        /\ pending \in [Hosts -> DealFields \cup {NoDeal}] /\ tip \in 0..MaxTip
        /\ lost \subseteq Hosts
    BY <1>0 DEF Typed, LifeTypeOK
  <1>2. /\ deal' \in [Hosts -> DealFields \cup {NoDeal}]
        /\ pending' \in [Hosts -> DealFields \cup {NoDeal}] /\ tip' \in 0..MaxTip
        /\ lost' \subseteq Hosts
    <2>1. ASSUME NEW h \in Hosts, Land(h) \/ Abandon(h) \/ Collect(h) \/ Evict(h) \/ LoseBytes(h)
          PROVE  /\ deal' \in [Hosts -> DealFields \cup {NoDeal}]
                 /\ pending' \in [Hosts -> DealFields \cup {NoDeal}] /\ tip' = tip
                 /\ lost' \subseteq Hosts
      BY <1>1, <2>1 DEF Land, Abandon, Collect, Evict, LoseBytes
    <2>2. CASE Mine
      BY <1>1, <2>2, LifeAssumption DEF Mine
    <2> QED  BY <1>1, <2>1, <2>2 DEF HostStep
  <1>3. Typed'
    BY <1>0, <1>2, TypedKept DEF Typed, LifeTypeOK
  <1>4. IdsInv'
    BY <1>0, SameIds
  <1> QED  BY <1>0, <1>3, <1>4 DEF LifeInv, Stages, Placing, OnRecord


LEMMA LifeNext == LifeInv /\ [Next]_lifeVars => LifeInv'
  <1> SUFFICES ASSUME LifeInv, [Next]_lifeVars PROVE LifeInv'
    OBVIOUS
  <1>1. CASE OpenFails
    BY <1>1, OffersKeep
  <1>2. CASE Replicate
    BY <1>1, <1>2, OffersKeep, OpenKeeps DEF Replicate
  <1>3. CASE AddStart \/ RenewCommand
    BY <1>3, StartsKeep, RenewalsKeep, SavesKeep DEF RenewCommand
  <1>4. CASE AddSave \/ Kill
    BY <1>4, SavesKeep, StopsKeep
  <1>5. CASE Pass
    <2>1. CASE Gate \/ Prove \/ Audited \/ Plan
      BY <2>1, AuditsKeep
    <2>2. CASE \E h \in Hosts : Challenge(h) \/ AuditFails(h) \/ Pay(h) \/ PayFails(h)
      BY <2>2, AuditsKeep, PayKeeps
    <2> QED  BY <1>5, <2>1, <2>2, StartsKeep, SavesKeep DEF Pass
  <1>6. CASE RmCommand
    BY <1>6, RmKeeps, StopsKeep, ReleasesKeep DEF RmCommand
  <1>7. CASE HostStep \/ Mine
    BY <1>7, OthersKeep
  <1>8. CASE UNCHANGED lifeVars
    BY <1>8 DEF lifeVars, LifeInv, Typed, LifeTypeOK, Stages, Placing, OnRecord, IdsInv,
                InUse, RecordedIds, Open
  <1> QED  BY <1>2, <1>3, <1>4, <1>5, <1>6, <1>7, <1>8 DEF Next

LEMMA LifeSafe == Spec => []LifeInv
  BY LifeInit, LifeNext, PTL DEF Spec

(* The entry of pins.json is well formed, health and channels are of        *)
(* holders, and so is everything a command has in hand (Replica in          *)
(* pinset.rs, replicate, repair_once).                                      *)
THEOREM LifeTypeCorrect == Spec => []LifeTypeOK
  <1>1. LifeInv => LifeTypeOK
    BY DEF LifeInv, Typed
  <1> QED  BY <1>1, LifeSafe, PTL

(* Every open channel belongs to one replica, on record or in hand, or is   *)
(* off the record for a reason the code accepts: through offers, saves,     *)
(* renewals, rm and kills none is shared by two holders and none forgotten  *)
(* (replicate, repair_once, cmd_rm).                                        *)
THEOREM ChannelsKept == Spec => []ChannelsAccounted
  <1>1. LifeInv => ChannelsAccounted
    BY DEF LifeInv, IdsInv, InUse, OneEach, ChannelsAccounted
  <1> QED  BY <1>1, LifeSafe, PTL

----------------------------------------------------------------------------
(* Audits.  A host that holds the pin while a pass audits had it when the   *)
(* pass began, or a late offer gave it the pin since; one past the gate did *)
(* hold it.  A holder with pin and bytes that no fault touches is still to  *)
(* be asked, is being asked for a chunk there is, or has passed.            *)

Auditing == proc.at \in {"audit", "gate", "prove"}

Waiting ==
    IF ~Auditing THEN {}
    ELSE IF proc.at = "audit" THEN proc.todo ELSE proc.todo \cup {proc.host}

SeenInv ==
    /\ Auditing => \A h \in Hosts : deal[h] # NoDeal => h \in seen
    /\ proc.at = "prove" => proc.host \in seen
    /\ proc.cmd = "pass" => proc.passed \subseteq seen

SteadyInv ==
    /\ proc.cmd # "pass" => steady = {}
    /\ steady \subseteq {h \in Hosts : deal[h] # NoDeal} \ lost
    /\ Chunks > 0 =>
          /\ proc.at \in {"gate", "prove"} => proc.challenge.index < Chunks
          /\ proc.cmd = "pass" => record.held \cap steady \subseteq Waiting \cup proc.passed

HealthInv == SeenInv /\ SteadyInv

(* No pass is at work after the step.                                       *)
LEMMA NoPass ==
  ASSUME LifeInv', HealthInv, proc'.cmd # "pass", steady' = {}
  PROVE  HealthInv'
  <1>1. ~Auditing'
    BY DEF LifeInv, Typed, Stages, ProcFields, Auditing
  <1> QED  BY <1>1 DEF HealthInv, SeenInv, SteadyInv, Auditing

(* The pass has done its audits.                                            *)
LEMMA AfterAudits ==
  ASSUME LifeInv, LifeInv', HealthInv, Waiting = {}, ~Auditing',
         proc'.cmd = proc.cmd, proc'.passed = proc.passed, lost' \subseteq lost,
         \A h \in Hosts : deal[h] # NoDeal => deal'[h] # NoDeal,
         UNCHANGED <<record, seen, steady>>
  PROVE  HealthInv'
  BY DEF HealthInv, SeenInv, SteadyInv, Auditing, Waiting

LEMMA AuditStep ==
  ASSUME LifeInv, LifeInv', HealthInv, NEW h \in Hosts,
         Challenge(h) \/ Gate \/ Prove \/ AuditFails(h)
  PROVE  HealthInv'
  <1>0. /\ proc \in ProcFields /\ Stages /\ Auditing /\ proc.cmd = "pass"
        /\ proc.at \in {"gate", "prove"} => proc.host \in Hosts
        /\ UNCHANGED <<record, deal, lost, seen>> /\ tip \in 0..MaxTip
        /\ steady \subseteq Hosts
    BY DEF LifeInv, Typed, LifeTypeOK, Stages, ProcFields, Challenge, Gate, Prove, AuditFails,
           Auditing, HealthInv, SteadyInv
  <1>1. CASE Challenge(h)
    <2> DEFINE ch == [index |-> ChallengeIndex(tip),
                      nonce |-> NonceFromSeed(tip, ChallengeIndex(tip))]
    <2>1. /\ proc' = [proc EXCEPT !.at = "gate", !.todo = @ \ {h}, !.host = h,
                                  !.challenge = ch]
          /\ ch.index = ChallengeIndex(tip)
      BY <1>1 DEF Challenge
    <2> HIDE DEF ch
    <2>2. /\ proc'.at = "gate" /\ proc'.todo = proc.todo \ {h} /\ proc'.host = h
          /\ proc'.challenge = ch /\ proc'.passed = proc.passed /\ proc'.cmd = "pass"
          /\ proc.at = "audit" /\ h \in proc.todo /\ Chunks > 0 /\ steady' = steady
      BY <1>0, <1>1, <2>1 DEF ProcFields, Challenge
    <2>3. ch.index < Chunks
      <3>1. Digest[tip] \in Nat /\ Chunks \in Nat \ {0}
        BY <1>0, <2>2, LifeAssumption
      <3>2. Digest[tip] % Chunks < Chunks
        BY <3>1
      <3> QED  BY <2>1, <2>2, <3>2 DEF ChallengeIndex
    <2> QED  BY <1>0, <2>2, <2>3 DEF HealthInv, SeenInv, SteadyInv, Auditing, Waiting
  <1>2. CASE Gate
    <2>1. /\ proc'.at = "prove" /\ proc'.todo = proc.todo /\ proc'.host = proc.host
          /\ proc'.challenge = proc.challenge /\ proc'.passed = proc.passed
          /\ proc'.cmd = "pass" /\ proc.at = "gate" /\ deal[proc.host] # NoDeal
          /\ steady' = steady
      BY <1>0, <1>2 DEF ProcFields, Gate
    <2> QED  BY <1>0, <2>1 DEF HealthInv, SeenInv, SteadyInv, Auditing, Waiting
  <1>3. CASE Prove
    <2>1. proc' = [proc EXCEPT !.at = "audit", !.host = NoHost, !.challenge = NoChallenge,
                               !.passed = proc.passed \cup {proc.host}]
      BY <1>3 DEF Prove, Verify
    <2>2. /\ proc'.at = "audit" /\ proc'.todo = proc.todo /\ proc'.cmd = "pass"
          /\ proc'.passed = proc.passed \cup {proc.host} /\ proc.at = "prove"
          /\ steady' = steady
      BY <1>0, <1>3, <2>1 DEF ProcFields, Prove
    <2> QED  BY <1>0, <2>2 DEF HealthInv, SeenInv, SteadyInv, Auditing, Waiting
  <1>4. CASE AuditFails(h)
    <2>1. /\ proc'.at = "audit" /\ proc'.todo = proc.todo \ {h} /\ proc'.cmd = "pass"
          /\ proc'.passed = proc.passed /\ steady' \subseteq steady
          /\ proc.at = "audit" \/ h = proc.host
      BY <1>0, <1>4 DEF ProcFields, AuditFails
    <2>2. Chunks > 0 => h \notin steady'
      <3>1. ASSUME Chunks > 0, NoProof(h) PROVE h \notin steady
        <4>1. proc.challenge.index \in Nat /\ Chunks \in Nat
          BY <1>0, ProcFacts, LifeAssumption DEF Challenges
        <4>2. proc.at \in {"gate", "prove"} /\ h \in steady => deal[h] # NoDeal /\ h \notin lost
          BY DEF HealthInv, SteadyInv
        <4>3. proc.at \in {"gate", "prove"} => proc.challenge.index < Chunks
          BY <3>1 DEF HealthInv, SteadyInv
        <4> QED  BY <3>1, <4>1, <4>2, <4>3 DEF NoProof
      <3>2. CASE NoProof(h)
        BY <1>4, <3>1, <3>2 DEF AuditFails
      <3>3. CASE ~NoProof(h)
        BY <1>4, <3>3 DEF AuditFails
      <3> QED  BY <3>2, <3>3
    <2> QED  BY <1>0, <2>1, <2>2 DEF HealthInv, SeenInv, SteadyInv, Auditing, Waiting
  <1> QED  BY <1>1, <1>2, <1>3, <1>4

LEMMA HealthNext == LifeInv /\ HealthInv /\ [Next]_lifeVars => HealthInv'
  <1> SUFFICES ASSUME LifeInv, HealthInv, [Next]_lifeVars PROVE HealthInv'
    OBVIOUS
  <1>0. proc \in ProcFields /\ Stages /\ Typed /\ LifeInv'
    BY LifeNext DEF LifeInv, Typed
  <1>d. /\ deal \in [Hosts -> DealFields \cup {NoDeal}]
        /\ pending \in [Hosts -> DealFields \cup {NoDeal}]
    BY <1>0 DEF Typed, LifeTypeOK
  <1>2. CASE Replicate
    <2>0. /\ proc.at \in {"offer", "fund"} /\ UNCHANGED <<record, seen, steady>>
          /\ lost' \subseteq lost
      BY <1>2 DEF Replicate, Accept, Decline, GiveUp, OpenChannel, OpenFails, Offering
    <2>1. \A h \in Hosts : deal[h] # NoDeal => deal'[h] # NoDeal
      <3>1. ASSUME NEW h \in Hosts, Accept(h)
            PROVE  deal' = [deal EXCEPT ![h] = Terms(proc.rate, proc.expiry)]
                   /\ Terms(proc.rate, proc.expiry) # NoDeal
        <4>1. Terms(proc.rate, proc.expiry) \in DealFields
          BY <1>0, ProcFacts DEF Terms, DealFields
        <4> QED  BY <3>1, <4>1, LifeAssumption DEF Accept
      <3>2. ASSUME NEW h \in Hosts, Accept(h)
            PROVE  \A g \in Hosts : deal[g] # NoDeal => deal'[g] # NoDeal
        BY <1>d, <3>1, <3>2
      <3> QED  BY <1>2, <3>2 DEF Replicate, Decline, GiveUp, OpenChannel, OpenFails
    <2>2. /\ proc'.at \in {"offer", "fund"} /\ proc'.cmd = proc.cmd
          /\ proc'.passed = proc.passed
      <3>1. ASSUME NEW h \in Hosts, Accept(h)
            PROVE  /\ proc'.at \in {"offer", "fund"} /\ proc'.cmd = proc.cmd
                   /\ proc'.passed = proc.passed
        <4>1. PICK to \in {"fund", "offer"} :
                proc' = [proc EXCEPT !.todo = @ \ {h}, !.got = @ \cup {h}, !.host = h, !.at = to]
          BY <3>1 DEF Accept
        <4> QED  BY <1>0, <4>1 DEF ProcFields
      <3>2. ASSUME NEW h \in Hosts, Decline(h) \/ GiveUp(h)
            PROVE  proc'.at = proc.at /\ proc'.cmd = proc.cmd /\ proc'.passed = proc.passed
        BY <1>0, <3>2 DEF Decline, GiveUp, ProcFields
      <3>3. ASSUME NEW heard \in BOOLEAN, OpenChannel(heard)
            PROVE  proc'.at = "offer" /\ proc'.cmd = proc.cmd /\ proc'.passed = proc.passed
        <4>1. PICK id : proc' = [proc EXCEPT !.at = "offer", !.host = NoHost,
                                             !.chan[proc.host] = id]
          BY <3>3 DEF OpenChannel
        <4> QED  BY <1>0, <4>1 DEF ProcFields
      <3>4. CASE OpenFails
        BY <1>0, <3>4 DEF OpenFails, ProcFields
      <3> QED  BY <1>2, <2>0, <3>1, <3>2, <3>3, <3>4 DEF Replicate
    <2> QED  BY <1>0, <2>0, <2>1, <2>2, AfterAudits DEF Auditing, Waiting
  <1>3. CASE AddStart \/ RenewStart
    <2>1. proc'.cmd \in {"add", "renew"} /\ proc = Idle /\ steady' = steady
      <3>1. CASE AddStart
        <4>1. PICK todo, rate, expiry :
                proc' = [Idle EXCEPT !.cmd = "add", !.at = "offer", !.todo = todo,
                                     !.rate = rate, !.expiry = expiry]
          BY <3>1 DEF AddStart
        <4> QED  BY <1>0, <3>1, <4>1 DEF Idle, AddStart, Stages
      <3>2. CASE RenewStart
        <4>1. PICK rate, expiry :
                proc' = [Idle EXCEPT !.cmd = "renew", !.at = "renew", !.todo = record.held,
                                     !.rate = rate, !.expiry = expiry]
          BY <3>2 DEF RenewStart
        <4> QED  BY <1>0, <3>2, <4>1 DEF Idle, RenewStart, Stages
      <3> QED  BY <1>3, <3>1, <3>2
    <2> QED  BY <1>0, <2>1, NoPass DEF HealthInv, SteadyInv, Idle
  <1>4. CASE PassSave \/ Kill
    <2>1. proc' = Idle /\ steady' = {}
      BY <1>4 DEF PassSave, Kill
    <2>2. proc'.cmd = "none"
      BY <2>1 DEF Idle
    <2> QED  BY <1>0, <2>1, <2>2, NoPass
  <1>5. CASE AddSave \/ RenewSave \/ RmEnd
    <2>1. proc' = Idle /\ proc.cmd # "pass" /\ steady' = steady
      BY <1>0, <1>5 DEF AddSave, RenewSave, RenewDone, RmEnd, Stages, ProcFields
    <2>2. proc'.cmd = "none" /\ steady' = {}
      BY <2>1 DEF HealthInv, SteadyInv, Idle
    <2> QED  BY <1>0, <2>2, NoPass
  <1>6. CASE \E h \in Hosts : Renew(h) \/ RenewFails(h)
    <2>1. proc'.cmd = proc.cmd /\ proc.cmd # "pass" /\ steady' = steady
      BY <1>0, <1>6 DEF Renew, RenewFails, Stages, ProcFields
    <2> QED  BY <1>0, <2>1, NoPass DEF HealthInv, SteadyInv
  <1>7. CASE PassStart
    <2>1. /\ proc' = [Idle EXCEPT !.cmd = "pass", !.at = "audit", !.todo = record.held,
                                  !.rate = record.rate, !.expiry = record.expiry]
          /\ seen' = {h \in Hosts : deal[h] # NoDeal} /\ steady' = seen' \ lost
          /\ UNCHANGED <<deal, lost, record>>
      BY <1>7 DEF PassStart
    <2>2. /\ proc'.at = "audit" /\ proc'.cmd = "pass" /\ proc'.passed = {}
          /\ proc'.todo = record.held
      BY <2>1 DEF Idle
    <2> QED  BY <2>1, <2>2 DEF HealthInv, SeenInv, SteadyInv, Auditing, Waiting
  <1>8. CASE Gate \/ Prove \/ \E h \in Hosts : Challenge(h) \/ AuditFails(h)
    <2>1. CASE Gate \/ Prove
      <3>1. proc.host \in Hosts
        BY <1>0, <2>1 DEF Gate, Prove, Stages
      <3> QED  BY <1>0, <2>1, <3>1, AuditStep
    <2> QED  BY <1>0, <1>8, <2>1, AuditStep
  <1>9. CASE Audited \/ Plan \/ \E h \in Hosts : Pay(h) \/ PayFails(h)
    <2>1. /\ UNCHANGED <<record, deal, lost, seen, steady>> /\ Waiting = {}
      BY <1>9 DEF Audited, Plan, Pay, PayFails, Waiting, Auditing
    <2>2. /\ proc'.at \in {"pay", "offer"} /\ proc'.cmd = proc.cmd
          /\ proc'.passed = proc.passed
      <3>1. CASE Audited \/ \E h \in Hosts : Pay(h) \/ PayFails(h)
        BY <1>0, <3>1 DEF Audited, Pay, PayFails, ProcFields
      <3>2. CASE Plan
        <4>1. PICK hs : proc' = [proc EXCEPT !.at = "offer", !.todo = hs, !.signed = {}]
          BY <3>2 DEF Plan
        <4> QED  BY <1>0, <4>1 DEF ProcFields
      <3> QED  BY <1>9, <3>1, <3>2
    <2> QED  BY <1>0, <2>1, <2>2, AfterAudits DEF Auditing
  <1>10. CASE \/ Rm \/ RmLocal
              \/ \E h \in Hosts : ReleaseFails(h) \/ \E expired \in BOOLEAN : Release(h, expired)
    <2>1. proc'.cmd # "pass" /\ proc.cmd # "pass" /\ steady' = steady
      BY <1>0, <1>10 DEF Rm, RmLocal, ReleaseFails, Release, Idle, Stages, ProcFields
    <2> QED  BY <1>0, <2>1, NoPass DEF HealthInv, SteadyInv
  <1>11. CASE HostStep \/ Mine \/ UNCHANGED lifeVars
    <2>1. /\ proc' = proc /\ record' = record /\ seen \subseteq seen' /\ steady' \subseteq steady
          /\ \A h \in Hosts : deal'[h] # NoDeal => deal[h] # NoDeal \/ h \in seen'
          /\ \A h \in steady' : deal'[h] # NoDeal /\ h \notin lost'
      <3>1. \A h \in steady : h \in Hosts /\ deal[h] # NoDeal /\ h \notin lost
        BY DEF HealthInv, SteadyInv
      <3>2. ASSUME NEW g \in Hosts, Land(g)
            PROVE  /\ proc' = proc /\ record' = record /\ seen \subseteq seen'
                   /\ steady' \subseteq steady
                   /\ \A h \in Hosts : deal'[h] # NoDeal => deal[h] # NoDeal \/ h \in seen'
                   /\ \A h \in steady' : deal'[h] # NoDeal /\ h \notin lost'
        BY <1>d, <3>1, <3>2 DEF Land
      <3>3. ASSUME NEW g \in Hosts, Abandon(g) \/ Collect(g) \/ Evict(g) \/ LoseBytes(g)
            PROVE  /\ proc' = proc /\ record' = record /\ seen' = seen
                   /\ steady' \subseteq steady
                   /\ \A h \in Hosts : deal'[h] # NoDeal => deal[h] # NoDeal
                   /\ \A h \in steady' : deal'[h] # NoDeal /\ h \notin lost'
        BY <1>d, <3>1, <3>3 DEF Abandon, Collect, Evict, LoseBytes
      <3>4. CASE Mine \/ UNCHANGED lifeVars
        BY <3>1, <3>4 DEF Mine, lifeVars
      <3> QED  BY <1>11, <3>2, <3>3, <3>4 DEF HostStep
    <2> QED  BY <2>1 DEF HealthInv, SeenInv, SteadyInv, Auditing, Waiting
  <1> QED  BY <1>2, <1>3, <1>4, <1>5, <1>6, <1>7, <1>8, <1>9, <1>10, <1>11
           DEF Next, RenewCommand, Pass, RmCommand

(* The health a pass records is true: a holder that kept pin and bytes and  *)
(* was spared every fault passes, whichever chunk the beacon picks and      *)
(* whatever is mined meanwhile; one recorded healthy was in its own held-set*)
(* in the pass (audit_replica, do_audit, repair_once).  That the bytes were *)
(* its own is not claimed: get_blob may fetch them.                         *)
THEOREM HealthTrue == Spec => HealthIsTrue
  <1>1. Init => HealthInv
    BY DEF Init, Idle, HealthInv, SeenInv, SteadyInv, Auditing
  <1>2. LifeInv /\ HealthInv /\ PassSave =>
          /\ Chunks > 0 => record.held \cap steady \subseteq record'.ok
          /\ record'.ok \cap record.held \subseteq seen
    <2> SUFFICES ASSUME LifeInv, HealthInv, PassSave
                 PROVE  /\ Chunks > 0 => record.held \cap steady \subseteq record'.ok
                        /\ record'.ok \cap record.held \subseteq seen
      OBVIOUS
    <2>1. proc.cmd = "pass" /\ proc.at = "offer" /\ record # NoRecord
          /\ proc.got \cap record.held = {}
      BY DEF PassSave, PassDone, LifeInv, OnRecord
    <2>2. record \in RecordFields
      BY <2>1, RecordFacts DEF LifeInv
    <2>3. record'.ok = (record.held \cap proc.passed) \cup proc.got
      BY <2>2 DEF PassSave, RecordFields
    <2> QED  BY <2>1, <2>3 DEF HealthInv, SeenInv, SteadyInv, Waiting, Auditing
  <1> QED  BY <1>1, <1>2, LifeSafe, HealthNext, PTL DEF Spec, HealthIsTrue

----------------------------------------------------------------------------
(* Leases.  While a command works, the hosts it has agreed with go by its   *)
(* terms and the others by the record's.                                    *)

KeepsTo(h, rate, expiry) ==
    deal[h] # NoDeal => Covers(deal[h], expiry) /\ deal[h].rate = rate

TermsInv ==
    /\ record # NoRecord =>
          \A h \in record.held \ (missed \cup proc.got) :
              KeepsTo(h, record.rate, record.expiry)
    /\ \A h \in proc.got \ missed : KeepsTo(h, proc.rate, proc.expiry)

(* Nobody agrees to anything.                                               *)
LEMMA NoNewTerms ==
  ASSUME TermsInv, missed \subseteq missed', record' \in {record, NoRecord},
         proc'.got = proc.got,
         proc.got = {} \/ (proc'.rate = proc.rate /\ proc'.expiry = proc.expiry),
         record' # NoRecord => record.held \in SUBSET Hosts, proc.got \in SUBSET Hosts,
         \A h \in Hosts \ missed' : deal'[h] \in {deal[h], NoDeal}
  PROVE  TermsInv'
  BY DEF TermsInv, KeepsTo, Covers

LEMMA TermsNext == LifeInv /\ TermsInv /\ [Next]_lifeVars => TermsInv'
  <1> SUFFICES ASSUME LifeInv, TermsInv, [Next]_lifeVars PROVE TermsInv'
    OBVIOUS
  <1>0. /\ proc \in ProcFields /\ Typed /\ Stages /\ OnRecord
        /\ proc.got \in SUBSET Hosts /\ proc.todo \in SUBSET Hosts
        /\ deal \in [Hosts -> DealFields \cup {NoDeal}]
        /\ record # NoRecord => record.held \in SUBSET Hosts
    BY ProcFacts, RecordFacts DEF LifeInv, Typed, LifeTypeOK
  <1>1. ASSUME proc'.got = proc.got, proc'.rate = proc.rate, proc'.expiry = proc.expiry,
               UNCHANGED <<record, deal, missed>>
        PROVE  TermsInv'
    BY <1>0, <1>1, NoNewTerms
  <1>2. CASE Replicate
    <2>1. ASSUME NEW h \in Hosts, Accept(h) PROVE TermsInv'
      <3>1. /\ deal' = [deal EXCEPT ![h] = Terms(proc.rate, proc.expiry)]
            /\ missed' = missed \ {h} /\ record' = record
        BY <2>1 DEF Accept
      <3>2. PICK to \in {"fund", "offer"} :
              proc' = [proc EXCEPT !.todo = @ \ {h}, !.got = @ \cup {h}, !.host = h, !.at = to]
        BY <2>1 DEF Accept
      <3>3. /\ proc'.got = proc.got \cup {h} /\ proc'.rate = proc.rate
            /\ proc'.expiry = proc.expiry
        BY <1>0, <3>2 DEF ProcFields
      <3>4. \A g \in Hosts : deal'[g] = IF g = h THEN Terms(proc.rate, proc.expiry) ELSE deal[g]
        BY <1>0, <3>1
      <3>5. proc.expiry \in Nat
        BY <1>0, ProcFacts
      <3> QED  BY <1>0, <3>1, <3>3, <3>4, <3>5 DEF TermsInv, KeepsTo, Covers, Terms
    <2>2. ASSUME NEW h \in Hosts, Decline(h) \/ GiveUp(h) PROVE TermsInv'
      <3>1. proc' = [proc EXCEPT !.todo = @ \ {h}] /\ UNCHANGED <<record, deal, missed>>
        BY <2>2 DEF Decline, GiveUp, Offering
      <3> QED  BY <1>0, <1>1, <3>1 DEF ProcFields
    <2>3. ASSUME NEW heard \in BOOLEAN, OpenChannel(heard) PROVE TermsInv'
      <3>1. PICK id : proc' = [proc EXCEPT !.at = "offer", !.host = NoHost,
                                           !.chan[proc.host] = id]
        BY <2>3 DEF OpenChannel
      <3>2. UNCHANGED <<record, deal, missed>>
        BY <2>3 DEF OpenChannel
      <3> QED  BY <1>0, <1>1, <3>1, <3>2 DEF ProcFields
    <2>4. CASE OpenFails
      BY <1>0, <1>1, <2>4 DEF OpenFails, ProcFields
    <2> QED  BY <1>2, <2>1, <2>2, <2>3, <2>4 DEF Replicate
  <1>3. CASE AddStart \/ RenewStart \/ PassStart
    <2>1. proc = Idle /\ UNCHANGED <<record, deal, missed>>
      BY <1>0, <1>3 DEF AddStart, RenewStart, PassStart, Stages
    <2>2. proc'.got = {}
      <3>1. ASSUME NEW cmd, NEW at, NEW todo, NEW rate, NEW expiry,
                   proc' = [Idle EXCEPT !.cmd = cmd, !.at = at, !.todo = todo,
                                        !.rate = rate, !.expiry = expiry]
            PROVE  proc'.got = {}
        BY <3>1 DEF Idle
      <3>2. CASE AddStart
        <4>1. PICK rate, hs, expiry :
                proc' = [Idle EXCEPT !.cmd = "add", !.at = "offer", !.todo = hs,
                                     !.rate = rate, !.expiry = expiry]
          BY <3>2 DEF AddStart
        <4> QED  BY <3>1, <4>1
      <3>3. CASE RenewStart
        <4>1. PICK rate, expiry :
                proc' = [Idle EXCEPT !.cmd = "renew", !.at = "renew", !.todo = record.held,
                                     !.rate = rate, !.expiry = expiry]
          BY <3>3 DEF RenewStart
        <4> QED  BY <3>1, <4>1
      <3>4. CASE PassStart
        BY <3>1, <3>4 DEF PassStart
      <3> QED  BY <1>3, <3>2, <3>3, <3>4
    <2> QED  BY <1>0, <2>1, <2>2, NoNewTerms DEF Idle
  <1>4. ASSUME NEW h \in Hosts, Renew(h) PROVE TermsInv'
    <2>1. /\ deal' = [deal EXCEPT ![h] = Extended(deal[h], proc.rate, proc.expiry)]
          /\ missed' = missed \ {h} /\ record' = record
      BY <1>4 DEF Renew
    <2>2. /\ proc'.got = proc.got \cup {h} /\ proc'.rate = proc.rate
          /\ proc'.expiry = proc.expiry
      BY <1>0, <1>4 DEF Renew, ProcFields
    <2>3. \A g \in Hosts : deal'[g] = IF g = h THEN Extended(deal[h], proc.rate, proc.expiry)
                                      ELSE deal[g]
      BY <1>0, <2>1
    <2>4. deal[h] \in DealFields /\ proc.expiry \in Nat /\ proc.expiry > 0
      BY <1>0, <1>4, ProcFacts DEF Renew, Stages, OnRecord, ProcFields
    <2>5. /\ Covers(Extended(deal[h], proc.rate, proc.expiry), proc.expiry)
          /\ Extended(deal[h], proc.rate, proc.expiry).rate = proc.rate
      BY <2>4 DEF Covers, Extended, DealFields
    <2> QED  BY <1>0, <2>1, <2>2, <2>3, <2>5 DEF TermsInv, KeepsTo, Covers
  <1>5. ASSUME NEW h \in Hosts, RenewFails(h) PROVE TermsInv'
    BY <1>0, <1>1, <1>5 DEF RenewFails, ProcFields
  <1>6. CASE AddSave \/ RenewSave \/ PassSave
    <2>1. deal' = deal /\ proc'.got = {}
      BY <1>6 DEF AddSave, RenewSave, PassSave, Idle
    <2>2. CASE AddSave
      <3>1. /\ record' = [rate |-> proc.rate, expiry |-> proc.expiry, held |-> proc.got,
                          ok |-> proc.got, chan |-> proc.chan]
            /\ missed' = missed \cap proc.got
        BY <2>2 DEF AddSave
      <3> QED  BY <2>1, <3>1 DEF TermsInv, KeepsTo, Covers
    <2>3. CASE RenewSave
      <3>1. record # NoRecord /\ record \in RecordFields
        BY <1>0, <2>3, RecordFacts DEF RenewSave, RenewDone, Stages, OnRecord, ProcFields
      <3>2. /\ record'.rate = proc.rate /\ record'.expiry = proc.expiry
            /\ record'.held = record.held /\ missed' = missed \cup (record.held \ proc.got)
        BY <2>3, <3>1 DEF RenewSave, RecordFields
      <3> QED  BY <2>1, <3>2 DEF TermsInv, KeepsTo, Covers
    <2>4. CASE PassSave
      <3>1. /\ record # NoRecord /\ record \in RecordFields
            /\ proc.rate = record.rate /\ proc.expiry = record.expiry
        BY <1>0, <2>4, RecordFacts DEF PassSave, PassDone, OnRecord
      <3>2. /\ record'.rate = record.rate /\ record'.expiry = record.expiry
            /\ record'.held = record.held \cup proc.got /\ missed' = missed
        BY <2>4, <3>1 DEF PassSave, RecordFields
      <3> QED  BY <2>1, <3>1, <3>2 DEF TermsInv, KeepsTo, Covers
    <2> QED  BY <1>6, <2>2, <2>3, <2>4
  <1>7. CASE Gate \/ Audited \/ \E h \in Hosts : Pay(h) \/ PayFails(h)
    BY <1>0, <1>1, <1>7 DEF Gate, Audited, Pay, PayFails, ProcFields
  <1>8. CASE Prove
    <2>1. PICK passed : proc' = [proc EXCEPT !.at = "audit", !.host = NoHost,
                                 !.challenge = NoChallenge, !.passed = passed]
      BY <1>8 DEF Prove
    <2> QED  BY <1>0, <1>1, <1>8, <2>1 DEF Prove, ProcFields
  <1>9. ASSUME NEW h \in Hosts, AuditFails(h) PROVE TermsInv'
    BY <1>0, <1>1, <1>9 DEF AuditFails, ProcFields
  <1>10. ASSUME NEW h \in Hosts, Challenge(h) PROVE TermsInv'
    <2>1. PICK ch : proc' = [proc EXCEPT !.at = "gate", !.todo = @ \ {h}, !.host = h,
                                         !.challenge = ch]
      BY <1>10 DEF Challenge
    <2> QED  BY <1>0, <1>1, <1>10, <2>1 DEF Challenge, ProcFields
  <1>11. CASE Plan
    <2>1. PICK hs : proc' = [proc EXCEPT !.at = "offer", !.todo = hs, !.signed = {}]
      BY <1>11 DEF Plan
    <2> QED  BY <1>0, <1>1, <1>11, <2>1 DEF Plan, ProcFields
  <1>12. CASE Rm \/ RmLocal \/ RmEnd
    <2>1. record' = NoRecord /\ proc'.got = {}
      <3>1. CASE Rm
        BY <3>1 DEF Rm, Idle
      <3>2. CASE RmLocal
        BY <1>0, <3>2 DEF RmLocal, Stages, Idle
      <3>3. CASE RmEnd
        BY <1>0, <3>3 DEF RmEnd, Idle, Stages, OnRecord, ProcFields
      <3> QED  BY <1>12, <3>1, <3>2, <3>3
    <2> QED  BY <2>1 DEF TermsInv
  <1>13. ASSUME NEW h \in Hosts,
                ReleaseFails(h) \/ \E expired \in BOOLEAN : Release(h, expired)
         PROVE  TermsInv'
    <2>1. /\ proc' = [proc EXCEPT !.todo = @ \ {h}, !.chan[h] = NoChannel]
          /\ UNCHANGED <<record, missed>>
      BY <1>13 DEF ReleaseFails, Release
    <2>2. proc'.got = proc.got /\ proc.got = {}
      BY <1>0, <1>13, <2>1 DEF ReleaseFails, Release, ProcFields, Stages
    <2>3. deal' \in {deal, [deal EXCEPT ![h] = NoDeal]}
      BY <1>13 DEF ReleaseFails, Release
    <2> QED  BY <1>0, <2>1, <2>2, <2>3, NoNewTerms
  <1>14. CASE Kill
    <2>1. /\ deal' = deal /\ record' = record /\ missed' = missed \cup proc.got
          /\ proc'.got = {}
      BY <1>14 DEF Kill, Idle
    <2> QED  BY <2>1 DEF TermsInv, KeepsTo, Covers
  <1>15. ASSUME NEW h \in Hosts, Land(h) \/ Abandon(h) \/ Collect(h) \/ Evict(h) \/ LoseBytes(h)
         PROVE  TermsInv'
    <2>1. /\ proc' = proc /\ record' = record /\ missed \subseteq missed'
          /\ \A g \in Hosts \ missed' : deal'[g] \in {deal[g], NoDeal}
      BY <1>0, <1>15 DEF Land, Abandon, Collect, Evict, LoseBytes
    <2> QED  BY <1>0, <2>1, NoNewTerms
  <1>16. CASE Mine \/ UNCHANGED lifeVars
    BY <1>1, <1>16 DEF Mine, lifeVars
  <1> QED  BY <1>2, <1>3, <1>4, <1>5, <1>6, <1>7, <1>8, <1>9, <1>10, <1>11, <1>12, <1>13,
              <1>14, <1>15, <1>16
           DEF Next, RenewCommand, Pass, RmCommand, HostStep

(* Between commands, what pins.json says of the lease and the rent is what  *)
(* each holder that still has the pin goes by, or better, except holders    *)
(* that missed the last renewal or that a late offer or a killed command    *)
(* changed (cmd_add, cmd_renew, do_renew, repair_once).                     *)
THEOREM LeaseRecorded == Spec => []LeaseAsRecorded
  <1>1. Init => TermsInv
    BY DEF Init, Idle, TermsInv
  <1>2. LifeInv /\ TermsInv => LeaseAsRecorded
    BY DEF LifeInv, Stages, Idle, TermsInv, KeepsTo, LeaseAsRecorded
  <1> QED  BY <1>1, <1>2, LifeSafe, TermsNext, PTL DEF Spec

----------------------------------------------------------------------------
(* Money.  What a channel locks covers one hour of the rent it was opened   *)
(* for: replicate rounds the size up, pay_rent_for down.                    *)

LEMMA ProductGrows ==
  ASSUME NEW a \in Nat, NEW b \in Nat, NEW c \in Nat, a <= b
  PROVE  a * c <= b * c
  <1>1. PICK d \in Nat : b = a + d
    BY b - a \in Nat
  <1>2. (a + d) * c = a * c + d * c /\ d * c \in Nat /\ a * c \in Nat
    OBVIOUS
  <1> QED  BY <1>1, <1>2

LEMMA QuotientGrows ==
  ASSUME NEW a \in Nat, NEW b \in Nat, NEW m \in Nat \ {0}, a <= b
  PROVE  a \div m <= b \div m
  <1> DEFINE p == a \div m
             q == b \div m
  <1>1. p \in Nat /\ q \in Nat /\ m * p <= a /\ b < m * q + m
    OBVIOUS
  <1> HIDE DEF p, q
  <1>2. ASSUME p > q PROVE FALSE
    <2>1. PICK d \in Nat : p = q + 1 + d
      BY <1>1, <1>2, p - q - 1 \in Nat
    <2>2. m * (q + 1 + d) = m * q + m + m * d /\ m * d \in Nat /\ m * q \in Nat
      BY <1>1
    <2> QED  BY <1>1, <2>1, <2>2
  <1> QED  BY <1>1, <1>2 DEF p, q

LEMMA RentGrows ==
  ASSUME NEW r \in Nat, NEW s \in Nat, r <= s
  PROVE  RentOwed(r, 1) <= RentOwed(s, 1)
  <1> DEFINE down == (Bytes * Milli) \div Gib
  <1>1. down \in Nat
    BY Sizes
  <1> HIDE DEF down
  <1>2. r * down \in Nat /\ s * down \in Nat /\ r * down <= s * down
    BY <1>1, ProductGrows
  <1>3. (r * down) \div Milli <= (s * down) \div Milli
    BY <1>2, QuotientGrows, LifeAssumption
  <1>4. r * down * 1 = r * down /\ s * down * 1 = s * down
    BY <1>2
  <1> QED  BY <1>3, <1>4 DEF RentOwed, down

LEMMA CapacityCovers ==
  ASSUME NEW rate \in Nat, NEW hours \in Nat, hours >= 1
  PROVE  RentOwed(rate, 1) <= ChannelCapacity(rate, hours)
  <1> DEFINE up == (Bytes * Milli + Gib - 1) \div Gib
             down == (Bytes * Milli) \div Gib
             size == Max({1, up})
  <1>1. down \in Nat /\ up \in Nat /\ down <= up
    <2>1. down <= up
      BY Sizes, QuotientGrows
    <2> QED  BY <2>1, Sizes
  <1> HIDE DEF down, up
  <1>2. size \in Nat /\ down <= size
    BY <1>1, MaxOfTwo
  <1> HIDE DEF size
  <1>3. /\ rate * down \in Nat /\ rate * size \in Nat /\ rate * size * hours \in Nat
        /\ rate * down <= rate * size
    <2>1. down * rate <= size * rate /\ down * rate = rate * down /\ size * rate = rate * size
      BY <1>1, <1>2, ProductGrows
    <2> QED  BY <1>1, <1>2, <2>1
  <1>4. rate * size <= rate * size * hours
    <2> DEFINE p == rate * size
    <2>1. p \in Nat
      BY <1>3
    <2> HIDE DEF p
    <2>2. 1 * p <= hours * p /\ hours * p = p * hours /\ 1 * p = p
      BY <2>1, ProductGrows
    <2> QED  BY <2>2 DEF p
  <1>5. (rate * down * 1) \div Milli <= (rate * size * hours) \div Milli
    <2>1. rate * down * 1 = rate * down
      BY <1>3
    <2>2. rate * down <= rate * size * hours
      BY <1>3, <1>4
    <2> QED  BY <1>3, <2>1, <2>2, QuotientGrows, LifeAssumption
  <1>6. /\ (rate * size * hours) \div Milli \in Nat /\ (rate * down * 1) \div Milli \in Nat
        /\ Credit \in Nat
    <2>1. rate * down * 1 \in Nat /\ Milli \in Nat \ {0} /\ Credit \in Nat
      BY <1>3, LifeAssumption
    <2> QED  BY <1>3, <2>1
  <1>7. (rate * size * hours) \div Milli <= Max({Credit, (rate * size * hours) \div Milli})
        /\ Max({Credit, (rate * size * hours) \div Milli}) \in Nat
    BY <1>6, MaxOfTwo
  <1>8. (rate * down * 1) \div Milli <= Max({Credit, (rate * size * hours) \div Milli})
    BY <1>5, <1>6, <1>7
  <1> QED  BY <1>8 DEF RentOwed, ChannelCapacity, size, up, down

CapInv == \A i \in Open : RentOwed(channel[i].rate, 1) <= channel[i].cap

LEMMA CapNext == LifeInv /\ CapInv /\ [Next]_lifeVars => CapInv'
  <1> SUFFICES ASSUME LifeInv, CapInv, [Next]_lifeVars PROVE CapInv'
    OBVIOUS
  <1>0. /\ proc \in ProcFields /\ Typed
        /\ channel \in [ChannelIds -> ChannelFields \cup {NoChannel}]
    BY DEF LifeInv, Typed, LifeTypeOK
  <1>1. ASSUME NEW heard \in BOOLEAN, OpenChannel(heard) PROVE CapInv'
    <2>1. PICK t \in TipAnswers :
            channel' = [channel EXCEPT ![FreeId] =
                [cap |-> ChannelCapacity(proc.rate, LeaseHours(proc.expiry, t)),
                 rate |-> proc.rate, paid |-> 0]]
      BY <1>1 DEF OpenChannel
    <2>2. t \in Nat /\ proc.rate \in Nat /\ proc.expiry \in Nat
      BY <1>0, ProcFacts, LifeAssumption DEF TipAnswers, Typed, LifeTypeOK
    <2> DEFINE cap == ChannelCapacity(proc.rate, LeaseHours(proc.expiry, t))
    <2>3. RentOwed(proc.rate, 1) <= cap
      BY <2>2, MoneyTypes, CapacityCovers
    <2> HIDE DEF cap
    <2> DEFINE new == [cap |-> cap, rate |-> proc.rate, paid |-> 0]
    <2>4. channel' = [channel EXCEPT ![FreeId] = new]
      BY <2>1 DEF cap
    <2>5. new.rate = proc.rate /\ new.cap = cap
      OBVIOUS
    <2> HIDE DEF new
    <2>6. \A i \in ChannelIds : channel'[i] = IF i = FreeId THEN new ELSE channel[i]
      BY <1>0, <2>4
    <2> QED  BY <2>3, <2>5, <2>6 DEF CapInv, Open
  <1>2. ASSUME NEW h \in Hosts, Pay(h) PROVE CapInv'
    <2>1. PICK j \in Open, paid \in Nat :
            /\ channel[j] \in ChannelFields
            /\ channel' = [channel EXCEPT ![j] = [channel[j] EXCEPT !.paid = paid]]
      BY <1>2, PayTo
    <2> DEFINE new == [channel[j] EXCEPT !.paid = paid]
    <2>2. new.rate = channel[j].rate /\ new.cap = channel[j].cap
      BY <2>1 DEF ChannelFields
    <2> HIDE DEF new
    <2>3. \A i \in ChannelIds : channel'[i] = IF i = j THEN new ELSE channel[i]
      BY <1>0, <2>1 DEF new
    <2> QED  BY <2>1, <2>2, <2>3 DEF CapInv, Open
  <1>3. ASSUME \A i \in ChannelIds : channel'[i] \in {channel[i], NoChannel}
        PROVE  CapInv'
    BY <1>3 DEF CapInv, Open
  <1>4. ASSUME NEW h \in Hosts,
               ReleaseFails(h) \/ \E expired \in BOOLEAN : Release(h, expired)
        PROVE  CapInv'
    <2>1. \A i \in ChannelIds : channel'[i] \in {channel[i], NoChannel}
      <3>1. CASE ReleaseFails(h)
        BY <3>1 DEF ReleaseFails
      <3>2. ASSUME NEW expired \in BOOLEAN, Release(h, expired)
            PROVE  \A i \in ChannelIds : channel'[i] \in {channel[i], NoChannel}
        BY <3>2 DEF Release
      <3> QED  BY <1>4, <3>1, <3>2
    <2> QED  BY <1>3, <2>1
  <1>5. CASE UNCHANGED channel
    BY <1>3, <1>5
  <1> QED  BY <1>1, <1>2, <1>4, <1>5
           DEF Next, Replicate, RenewCommand, Pass, RmCommand, HostStep,
               Accept, Decline, GiveUp, OpenFails, AddStart, AddSave, RenewStart, Renew,
               RenewFails, RenewSave, PassStart, Gate, Prove, AuditFails, Audited, Plan,
               PassSave, Challenge, PayFails, Rm, RmLocal, RmEnd, Kill, Land, Abandon,
               Collect, Evict, LoseBytes, Mine, lifeVars

LEMMA CapSafe == Spec => [](LifeInv /\ CapInv)
  <1>1. Init => CapInv
    BY DEF Init, CapInv, Open
  <1> QED  BY <1>1, LifeSafe, CapNext, PTL DEF Spec

(* Only Pay signs receipts, one at a time.                                  *)
LEMMA SignedByPay ==
  ASSUME LifeInv, [Next]_lifeVars, NEW h \in proc'.signed \ proc.signed
  PROVE  h \in Hosts /\ Pay(h)
  <1>0. proc \in ProcFields
    BY DEF LifeInv, Typed
  <1>1. ASSUME proc'.signed \in {{}, proc.signed} PROVE FALSE
    BY <1>1
  <1>2. ASSUME proc' = Idle \/ proc' = proc PROVE FALSE
    BY <1>1, <1>2 DEF Idle
  <1>3. ASSUME NEW cmd, NEW at, NEW todo, NEW rate, NEW expiry,
               proc' = [Idle EXCEPT !.cmd = cmd, !.at = at, !.todo = todo,
                                    !.rate = rate, !.expiry = expiry]
        PROVE  FALSE
    BY <1>1, <1>3 DEF Idle
  <1>4. CASE Replicate
    <2>1. ASSUME NEW g \in Hosts, Accept(g) PROVE FALSE
      <3>1. PICK to \in {"fund", "offer"} :
              proc' = [proc EXCEPT !.todo = @ \ {g}, !.got = @ \cup {g}, !.host = g, !.at = to]
        BY <2>1 DEF Accept
      <3> QED  BY <1>0, <1>1, <3>1 DEF ProcFields
    <2>2. ASSUME NEW g \in Hosts, Decline(g) \/ GiveUp(g) PROVE FALSE
      BY <1>0, <1>1, <2>2 DEF Decline, GiveUp, ProcFields
    <2>3. ASSUME NEW heard \in BOOLEAN, OpenChannel(heard) PROVE FALSE
      <3>1. PICK id : proc' = [proc EXCEPT !.at = "offer", !.host = NoHost,
                                           !.chan[proc.host] = id]
        BY <2>3 DEF OpenChannel
      <3> QED  BY <1>0, <1>1, <3>1 DEF ProcFields
    <2>4. CASE OpenFails
      BY <1>0, <1>1, <2>4 DEF OpenFails, ProcFields
    <2> QED  BY <1>4, <2>1, <2>2, <2>3, <2>4 DEF Replicate
  <1>5. CASE AddStart
    <2>1. PICK rate, hs, expiry :
            proc' = [Idle EXCEPT !.cmd = "add", !.at = "offer", !.todo = hs,
                                 !.rate = rate, !.expiry = expiry]
      BY <1>5 DEF AddStart
    <2> QED  BY <1>3, <2>1
  <1>6. CASE RenewStart
    <2>1. PICK rate, expiry :
            proc' = [Idle EXCEPT !.cmd = "renew", !.at = "renew", !.todo = record.held,
                                 !.rate = rate, !.expiry = expiry]
      BY <1>6 DEF RenewStart
    <2> QED  BY <1>3, <2>1
  <1>7. CASE PassStart
    BY <1>3, <1>7 DEF PassStart
  <1>8. ASSUME NEW g \in Hosts, Renew(g) \/ RenewFails(g) PROVE FALSE
    BY <1>0, <1>1, <1>8 DEF Renew, RenewFails, ProcFields
  <1>9. CASE Gate \/ Audited \/ \E g \in Hosts : PayFails(g)
    BY <1>0, <1>1, <1>9 DEF Gate, Audited, PayFails, ProcFields
  <1>10. CASE Prove
    <2>1. PICK passed : proc' = [proc EXCEPT !.at = "audit", !.host = NoHost,
                                 !.challenge = NoChallenge, !.passed = passed]
      BY <1>10 DEF Prove
    <2> QED  BY <1>0, <1>1, <2>1 DEF ProcFields
  <1>11. ASSUME NEW g \in Hosts, AuditFails(g) PROVE FALSE
    BY <1>0, <1>1, <1>11 DEF AuditFails, ProcFields
  <1>12. ASSUME NEW g \in Hosts, Challenge(g) PROVE FALSE
    <2>1. PICK ch : proc' = [proc EXCEPT !.at = "gate", !.todo = @ \ {g}, !.host = g,
                                         !.challenge = ch]
      BY <1>12 DEF Challenge
    <2> QED  BY <1>0, <1>1, <2>1 DEF ProcFields
  <1>13. CASE Plan
    <2>1. PICK hs : proc' = [proc EXCEPT !.at = "offer", !.todo = hs, !.signed = {}]
      BY <1>13 DEF Plan
    <2> QED  BY <1>0, <1>1, <2>1 DEF ProcFields
  <1>14. CASE Rm
    <2>1. proc' = [Idle EXCEPT !.cmd = "rm", !.at = "release", !.todo = record.held,
                               !.chan = record.chan]
      BY <1>14 DEF Rm
    <2> QED  BY <1>1, <2>1 DEF Idle
  <1>15. ASSUME NEW g \in Hosts,
                ReleaseFails(g) \/ \E expired \in BOOLEAN : Release(g, expired)
         PROVE  FALSE
    <2>1. proc' = [proc EXCEPT !.todo = @ \ {g}, !.chan[g] = NoChannel]
      BY <1>15 DEF ReleaseFails, Release
    <2> QED  BY <1>0, <1>1, <2>1 DEF ProcFields
  <1>16. CASE \/ AddSave \/ RenewSave \/ PassSave \/ RmEnd \/ Kill
              \/ RmLocal \/ HostStep \/ Mine \/ UNCHANGED lifeVars
    BY <1>2, <1>16 DEF AddSave, RenewSave, PassSave, RmEnd, Kill, RmLocal, HostStep,
                       Land, Abandon, Collect, Evict, LoseBytes, Mine, lifeVars
  <1>17. PICK g \in Hosts : Pay(g)
    BY <1>4, <1>5, <1>6, <1>7, <1>8, <1>9, <1>10, <1>11, <1>12, <1>13, <1>14, <1>15, <1>16
       DEF Next, RenewCommand, Pass, RmCommand
  <1>18. proc'.signed = proc.signed \cup {g}
    BY <1>0, <1>17 DEF Pay, ProcFields
  <1> QED  BY <1>17, <1>18

(* No receipt takes a channel past what it locks, unless renew raised the   *)
(* rent after the channel was opened (channel_capacity_for in replicate,    *)
(* pay_rent_for): however the sizes round, whatever tip was read, and       *)
(* however often the rent was changed and changed back in between.          *)
THEOREM ReceiptsFitChannels == Spec => ReceiptsFit
  <1>1. LifeInv /\ CapInv /\ [Next]_lifeVars =>
          [\A h \in proc'.signed \ proc.signed :
              LET i == record.chan[h]
                  c == channel'[i]
              IN  record.rate <= c.rate /\ channel[i].paid <= c.cap =>
                      c.paid <= c.cap]_lifeVars
    <2> SUFFICES ASSUME LifeInv, CapInv, [Next]_lifeVars,
                        NEW h \in proc'.signed \ proc.signed
                 PROVE  LET i == record.chan[h]
                            c == channel'[i]
                        IN  record.rate <= c.rate /\ channel[i].paid <= c.cap =>
                                c.paid <= c.cap
      OBVIOUS
    <2> DEFINE i == record.chan[h]
               owed == RentOwed(record.rate, 1)
               paid == Max({channel[i].paid, owed})
    <2>1. h \in Hosts /\ Pay(h)
      BY SignedByPay
    <2>2. /\ i \in Open /\ channel[i] \in ChannelFields /\ record.rate \in Nat
          /\ paid \in Nat
          /\ channel' = [channel EXCEPT ![i] = [channel[i] EXCEPT !.paid = paid]]
      BY <2>1, PayTo
    <2>3. paid \in {channel[i].paid, owed}
      <3>1. owed \in Nat /\ channel[i].paid \in Nat
        BY <2>2, MoneyTypes DEF ChannelFields
      <3> QED  BY <3>1, MaxOfTwo
    <2> HIDE DEF paid
    <2>4. /\ channel'[i].rate = channel[i].rate /\ channel'[i].cap = channel[i].cap
          /\ channel'[i].paid = paid
      <3>1. channel \in [ChannelIds -> ChannelFields \cup {NoChannel}]
        BY DEF LifeInv, Typed, LifeTypeOK
      <3> QED  BY <2>2, <3>1 DEF ChannelFields, Open
    <2>5. ASSUME record.rate <= channel[i].rate PROVE owed <= channel[i].cap
      <3>1. /\ channel[i].rate \in Nat /\ channel[i].cap \in Nat
            /\ RentOwed(channel[i].rate, 1) <= channel[i].cap
        BY <2>2 DEF CapInv, ChannelFields
      <3>2. owed <= RentOwed(channel[i].rate, 1)
        BY <2>2, <2>5, <3>1, RentGrows
      <3>3. owed \in Nat /\ RentOwed(channel[i].rate, 1) \in Nat
        BY <2>2, <3>1, MoneyTypes
      <3> HIDE DEF owed
      <3> QED  BY <3>1, <3>2, <3>3
    <2> QED  BY <2>3, <2>4, <2>5
  <1> QED  BY <1>1, CapSafe, PTL DEF Spec, ReceiptsFit

=============================================================================
