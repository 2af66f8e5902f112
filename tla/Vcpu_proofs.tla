---------------------------- MODULE Vcpu_proofs ----------------------------
(***************************************************************************)
(* Theorems about a VCPU of KVM: the interrupts that are posted to it      *)
(* (VcpuRun) and the events that its entries inject (EventInjection).      *)
(***************************************************************************)
EXTENDS VcpuRun, EventInjection, WellFoundedInduction, TLAPS

\* What Highest returns: the largest vector of a set, and no vector for none.
LEMMA HighestBounds ==
  ASSUME NEW set \in SUBSET Vectors
  PROVE  /\ Highest(set) \in Nat
         /\ set = {} => Highest(set) = 0
         /\ set # {} => Highest(set) \in set
         /\ \A v \in set : v \in Nat /\ v > 0 /\ v <= Highest(set)
<1>1. set \subseteq 1 .. 255
  BY RunAssumption
<1>2. CASE set = {}
  BY <1>2 DEF Highest, NoVector
<1>3. CASE set # {}
  <2> DEFINE below == {255 - v : v \in set}
  <2>1. below \subseteq Nat /\ below # {}
    <3>1. \A v \in set : 255 - v \in Nat
      BY <1>1
    <3>2. QED
      BY <1>3, <3>1, Zenon
  <2> DEFINE less == OpToRel(<, Nat)
  <2>2. \A a, b \in Nat : <<a, b>> \in less <=> a < b
    BY DEF OpToRel
  <2>3. IsWellFoundedOn(less, Nat)
    BY NatLessThanWellFounded
  <2> HIDE DEF less
  <2>4. PICK n \in below : \A m \in below : <<m, n>> \notin less
    <3> HIDE DEF below
    <3>1. QED
      BY <2>1, <2>3, WFMin
  <2>5. PICK x \in set : n = 255 - x
    OBVIOUS
  <2>6. \A y \in set : x >= y
    <3>1. SUFFICES ASSUME NEW y \in set PROVE x >= y
      OBVIOUS
    <3>2. 255 - y \in below /\ 255 - y \in Nat /\ n \in Nat
      BY <1>1, <2>1
    <3>3. ~(255 - y < n)
      BY <2>2, <2>4, <3>2
    <3>4. QED
      BY <1>1, <2>5, <3>3
  <2>7. Max(set) \in set /\ \A y \in set : Max(set) >= y
    BY <2>5, <2>6 DEF Max
  <2>8. QED
    <3> DEFINE top == Max(set)
    <3>1. top \in set /\ \A y \in set : top >= y
      BY <2>7
    <3>2. Highest(set) = top
      BY <1>3 DEF Highest
    <3> HIDE DEF top
    <3>3. QED
      BY <1>1, <1>3, <3>1, <3>2
<1>4. QED
  BY <1>2, <1>3

\* It is the only one that does.
LEMMA HighestUnique ==
  ASSUME NEW set \in SUBSET Vectors, NEW m \in set, \A v \in set : v <= m
  PROVE  Highest(set) = m
<1>1. m \in Nat /\ Highest(set) \in Nat /\ m <= Highest(set)
  BY HighestBounds
<1>2. Highest(set) <= m
  BY HighestBounds
<1>3. QED
  BY <1>1, <1>2

\* The CPU takes the larger of RVI and what is posted.
LEMMA MaxWith ==
  ASSUME NEW r \in Vectors \cup {NoVector}, NEW set \in SUBSET Vectors
  PROVE  Max({r} \cup set) = IF r >= Highest(set) THEN r ELSE Highest(set)
<1> DEFINE top == IF r >= Highest(set) THEN r ELSE Highest(set)
<1>1. r \in Nat /\ Highest(set) \in Nat
  BY HighestBounds, RunAssumption DEF NoVector
<1>2. top \in {r} \cup set /\ top \in Nat
  BY <1>1, HighestBounds
<1>3. \A v \in {r} \cup set : v \in Nat /\ top >= v
  BY <1>1, HighestBounds
<1> HIDE DEF top
<1>4. Max({r} \cup set) \in {r} \cup set /\ \A v \in {r} \cup set : Max({r} \cup set) >= v
  BY <1>2, <1>3 DEF Max
<1>5. Max({r} \cup set) = top
  <2> DEFINE m == Max({r} \cup set)
  <2>1. m \in {r} \cup set /\ m >= top
    BY <1>2, <1>4
  <2> HIDE DEF m
  <2>2. m \in Nat /\ top >= m
    BY <1>3, <2>1
  <2>3. m = top
    BY <1>2, <2>1, <2>2
  <2>4. QED
    BY <2>3 DEF m
<1>6. QED
  BY <1>5 DEF top

\* If RVI is the highest of the IRR, then what it becomes is that of the new IRR.
LEMMA HighestOfUnion ==
  ASSUME NEW first \in SUBSET Vectors, NEW more \in SUBSET Vectors
  PROVE  Max({Highest(first)} \cup more) = Highest(first \cup more)
<1>1. Highest(first) \in Vectors \cup {NoVector}
  BY HighestBounds DEF NoVector
<1>2. Max({Highest(first)} \cup more)
        = IF Highest(first) >= Highest(more) THEN Highest(first) ELSE Highest(more)
  BY <1>1, MaxWith
<1>3. Highest(first) \in Nat /\ Highest(more) \in Nat
  BY HighestBounds
<1>4. CASE first = {} /\ more = {}
  BY <1>2, <1>4, HighestBounds
<1>5. CASE first # {} /\ Highest(first) >= Highest(more)
  <2>1. Highest(first) \in first /\ \A v \in first \cup more : v <= Highest(first)
    BY <1>3, <1>5, HighestBounds
  <2>2. QED
    BY <1>2, <1>5, <2>1, HighestUnique
<1>6. CASE more # {} /\ ~(Highest(first) >= Highest(more))
  <2>1. Highest(more) \in more /\ \A v \in first \cup more : v <= Highest(more)
    BY <1>3, <1>6, HighestBounds
  <2>2. QED
    BY <1>2, <1>6, <2>1, HighestUnique
<1>7. first = {} /\ more # {} => ~(Highest(first) >= Highest(more))
  BY <1>3, HighestBounds
<1>8. more = {} /\ first # {} => Highest(first) >= Highest(more)
  BY <1>3, HighestBounds
<1>9. QED
  BY <1>4, <1>5, <1>6, <1>7, <1>8

-----------------------------------------------------------------------------
Inside == {"clearOn", "takePir", "gate", "guest", "exited"}
Blocking == {"block", "check", "sleep", "unblock"}
Sends(steps) == \E v \in Vectors : sender[v] \in steps

\* Where the VCPU's thread is, and what it says of itself.
Places ==
    /\ mode = "OUTSIDE" <=> pc \notin Inside
    /\ pc \in Blocking => halted
    /\ halted => pc \in Blocking \cup {"top"}
    /\ why # "none" => pc \in {"exited", "handle"}
    /\ ~td /\ (halted \/ why = "hlt") => iflag

\* A TD's APIC is the CPU's: nobody writes its IRR or changes its APICv.
TdApart ==
    td => /\ apicv /\ ~inhibited /\ toggler = "idle" /\ "APICV_UPDATE" \notin requests
          /\ pc \notin {"apicv", "clearOn", "takePir"}
          /\ rvi = Highest(irr)
          /\ ~Sends({"irr", "request", "kick"})

\* A change of the inhibition keeps the VCPU out of the guest.
Changes ==
    /\ toggler # "idle" \/ apicv = inhibited
           => "APICV_UPDATE" \in requests \/ pc = "apicv"
    /\ pc = "guest" => toggler # "flip" /\ (toggler = "wait" => "call" \in ipi)

\* What is posted has its notification on the way, or is looked at first.
Posting ==
    /\ pir # {} => on \/ pc = "takePir" \/ Sends({"on"})
    /\ on /\ (pc = "guest" \/ (~td /\ pc \in {"takePir", "gate"}))
           => "notify" \in ipi \/ mode = "EXITING" \/ Sends({"mode", "ipi"})
    /\ pc = "guest" /\ mode = "EXITING" => ipi \cap {"kick", "call"} # {}
    /\ on /\ pc = "sleep" /\ asleep => Sends({"mode", "wake"})

\* What the APIC has for the VCPU is where the next entry, or its exit, looks.
Looking ==
    /\ pc \in {"gate", "guest"} /\ apicv /\ rvi # Highest(irr)
           => "EVENT" \in requests \/ Sends({"request"})
    /\ ~td /\ ~apicv /\ Deliverable(irr)
           => \/ "EVENT" \in requests \/ Sends({"request"}) \/ window \/ why = "eoi"
              \/ immediate /\ pc \in {"enter", "clearOn", "takePir", "gate"}
    /\ ~td /\ pc = "sleep" /\ asleep /\ Deliverable(irr) => Sends({"request", "kick"})
    /\ td /\ pc = "sleep" /\ ~hltOff => ~Deliverable(irr)

RunInv == TypeOK /\ Places /\ TdApart /\ Changes /\ ApicvAgrees /\ Posting /\ Looking
          /\ ServedIsReal

-----------------------------------------------------------------------------
(* Every step keeps RunInv.                                                *)

\* A vector is posted: its sender still has to set ON, unless somebody else's post of
\* it does.
LEMMA DeliverKeepsInv == ASSUME RunInv, NEW v \in Vectors, Deliver(v) PROVE RunInv'
<1>1. ApicTypeOK'
  BY DEF RunInv, TypeOK, ApicTypeOK, Deliver
<1>2. SenderTypeOK'
  BY RunAssumption DEF RunInv, TypeOK, SenderTypeOK, Deliver, apicvVars, SenderTo
<1>3. TdApart'
  BY DEF RunInv, TdApart, TypeOK, SenderTypeOK, Sends, Deliver, vcpuVars, apicvVars,
     SenderTo
<1>4. Posting'
  BY DEF RunInv, Posting, TypeOK, SenderTypeOK, Sends, Deliver, vcpuVars, apicvVars,
     SenderTo
<1>5. Looking'
  BY DEF RunInv, Looking, TypeOK, SenderTypeOK, Sends, Deliverable, Deliver, vcpuVars,
     apicvVars, SenderTo
<1>6. ThreadTypeOK' /\ Places' /\ Changes' /\ ApicvAgrees' /\ ServedIsReal'
  BY DEF RunInv, TypeOK, ThreadTypeOK, Places, Changes, ApicvAgrees, ServedIsReal,
     Inside, Blocking, NoVector, Deliver, vcpuVars, apicvVars
<1>7. QED
  BY <1>1, <1>2, <1>3, <1>4, <1>5, <1>6 DEF RunInv, TypeOK

\* ON is set by a sender that notifies, or by somebody else whose notification is under
\* way.
LEMMA SetOnKeepsInv == ASSUME RunInv, NEW v \in Vectors, SetOn(v) PROVE RunInv'
<1>1. ApicTypeOK'
  BY DEF RunInv, TypeOK, ApicTypeOK, SetOn
<1>2. SenderTypeOK'
  BY DEF RunInv, TypeOK, SenderTypeOK, SetOn, apicvVars, SenderTo
<1>3. TdApart'
  BY DEF RunInv, TdApart, Sends, SetOn, vcpuVars, apicvVars, SenderTo
<1>4. Posting'
  BY DEF RunInv, Posting, TypeOK, SenderTypeOK, Sends, SetOn, vcpuVars, apicvVars,
     SenderTo
<1>5. Looking'
  BY DEF RunInv, Looking, Sends, Deliverable, SetOn, vcpuVars, apicvVars, SenderTo
<1>6. ThreadTypeOK' /\ Places' /\ Changes' /\ ApicvAgrees' /\ ServedIsReal'
  BY DEF RunInv, TypeOK, ThreadTypeOK, Places, Changes, ApicvAgrees, ServedIsReal,
     Inside, Blocking, NoVector, SetOn, vcpuVars, apicvVars
<1>7. QED
  BY <1>1, <1>2, <1>3, <1>4, <1>5, <1>6 DEF RunInv, TypeOK

\* A VCPU that is not in guest mode is woken up; one in guest mode gets the IPI.
LEMMA ReadModeKeepsInv == ASSUME RunInv, NEW v \in Vectors, ReadMode(v) PROVE RunInv'
<1>1. SenderTypeOK'
  BY DEF RunInv, TypeOK, SenderTypeOK, ReadMode, apicvVars, SenderTo
<1>2. TdApart'
  BY DEF RunInv, TdApart, Sends, ReadMode, vcpuVars, apicVars, apicvVars, SenderTo
<1>3. Posting'
  BY DEF RunInv, TypeOK, Posting, ThreadTypeOK, Places, Inside, Sends, ReadMode,
     vcpuVars, apicVars, SenderTo
<1>4. Looking'
  BY DEF RunInv, Looking, Sends, Deliverable, ReadMode, vcpuVars, apicVars, apicvVars,
     SenderTo
<1>5. ThreadTypeOK' /\ ApicTypeOK' /\ Places' /\ Changes' /\ ApicvAgrees' /\ ServedIsReal'
  BY DEF RunInv, TypeOK, ThreadTypeOK, ApicTypeOK, Places, Changes, ApicvAgrees,
     ServedIsReal, Inside, Blocking, NoVector, ReadMode, vcpuVars, apicVars, apicvVars
<1>6. QED
  BY <1>1, <1>2, <1>3, <1>4, <1>5 DEF RunInv, TypeOK

\* The notification is pending on the CPU.
LEMMA NotifyKeepsInv == ASSUME RunInv, NEW v \in Vectors, Notify(v) PROVE RunInv'
<1>1. SenderTypeOK'
  BY DEF RunInv, TypeOK, SenderTypeOK, Notify, apicvVars, SenderTo
<1>2. TdApart'
  BY DEF RunInv, TdApart, Sends, Notify, vcpuVars, apicVars, apicvVars, SenderTo
<1>3. Changes'
  BY DEF RunInv, Changes, Notify, vcpuVars, apicvVars
<1>4. Posting'
  BY DEF RunInv, Posting, Sends, Notify, vcpuVars, apicVars, apicvVars, SenderTo
<1>5. Looking'
  BY DEF RunInv, Looking, Sends, Deliverable, Notify, vcpuVars, apicVars, apicvVars,
     SenderTo
<1>6. ThreadTypeOK' /\ ApicTypeOK' /\ Places' /\ ApicvAgrees' /\ ServedIsReal'
  BY DEF RunInv, TypeOK, ThreadTypeOK, ApicTypeOK, Places, ApicvAgrees, ServedIsReal,
     Inside, Blocking, NoVector, Notify, vcpuVars, apicVars, apicvVars
<1>7. QED
  BY <1>1, <1>2, <1>3, <1>4, <1>5, <1>6 DEF RunInv, TypeOK

\* Only for a VCPU that is not a TD's: the request follows.
LEMMA SetIrrKeepsInv == ASSUME RunInv, NEW v \in Vectors, SetIrr(v) PROVE RunInv'
<1>1. ApicTypeOK'
  BY DEF RunInv, TypeOK, ApicTypeOK, SetIrr
<1>2. SenderTypeOK'
  BY DEF RunInv, TypeOK, SenderTypeOK, SetIrr, apicvVars, SenderTo
<1>3. TdApart'
  BY DEF RunInv, TdApart, Sends, SetIrr, vcpuVars, apicvVars, SenderTo
<1>4. Posting'
  BY DEF RunInv, Posting, Sends, SetIrr, vcpuVars, apicvVars, SenderTo
<1>5. Looking'
  BY DEF RunInv, TypeOK, Looking, SenderTypeOK, TdApart, Sends, SetIrr, apicvVars,
     SenderTo
<1>6. ThreadTypeOK' /\ Places' /\ Changes' /\ ApicvAgrees' /\ ServedIsReal'
  BY DEF RunInv, TypeOK, ThreadTypeOK, Places, Changes, ApicvAgrees, ServedIsReal,
     Inside, Blocking, NoVector, SetIrr, vcpuVars, apicvVars
<1>7. QED
  BY <1>1, <1>2, <1>3, <1>4, <1>5, <1>6 DEF RunInv, TypeOK

\* The request is there before the kick.
LEMMA MakeRequestKeepsInv == ASSUME RunInv, NEW v \in Vectors, MakeRequest(v) PROVE RunInv'
<1>1. SenderTypeOK'
  BY DEF RunInv, TypeOK, SenderTypeOK, MakeRequest, apicvVars, SenderTo
<1>2. TdApart'
  BY DEF RunInv, TdApart, Sends, MakeRequest, vcpuVars, apicVars, apicvVars, SenderTo
<1>3. Changes'
  BY DEF RunInv, Changes, MakeRequest, vcpuVars, apicvVars
<1>4. Posting'
  BY DEF RunInv, Posting, Sends, MakeRequest, vcpuVars, apicVars, apicvVars, SenderTo
<1>5. Looking'
  BY DEF RunInv, Looking, Sends, Deliverable, MakeRequest, vcpuVars, apicVars,
     apicvVars, SenderTo
<1>6. ThreadTypeOK' /\ ApicTypeOK' /\ Places' /\ ApicvAgrees' /\ ServedIsReal'
  BY DEF RunInv, TypeOK, ThreadTypeOK, ApicTypeOK, Places, ApicvAgrees, ServedIsReal,
     Inside, Blocking, NoVector, MakeRequest, vcpuVars, apicVars, apicvVars
<1>7. QED
  BY <1>1, <1>2, <1>3, <1>4, <1>5, <1>6 DEF RunInv, TypeOK

\* A VCPU that is awake looks again.
LEMMA WakeUpKeepsInv == ASSUME RunInv, NEW v \in Vectors, WakeUp(v) PROVE RunInv'
<1>1. SenderTypeOK'
  BY DEF RunInv, TypeOK, SenderTypeOK, WakeUp, apicvVars, SenderTo
<1>2. TdApart'
  BY DEF RunInv, TdApart, Sends, WakeUp, vcpuVars, apicVars, apicvVars, SenderTo
<1>3. Posting'
  BY DEF RunInv, Posting, Sends, WakeUp, vcpuVars, apicVars, apicvVars, SenderTo
<1>4. Looking'
  BY DEF RunInv, Looking, Sends, Deliverable, WakeUp, vcpuVars, apicVars, apicvVars,
     SenderTo
<1>5. ThreadTypeOK' /\ ApicTypeOK' /\ Places' /\ Changes' /\ ApicvAgrees' /\ ServedIsReal'
  BY DEF RunInv, TypeOK, ThreadTypeOK, ApicTypeOK, Places, Changes, ApicvAgrees,
     ServedIsReal, Inside, Blocking, NoVector, WakeUp, vcpuVars, apicVars, apicvVars
<1>6. QED
  BY <1>1, <1>2, <1>3, <1>4, <1>5 DEF RunInv, TypeOK

\* A VCPU that is kicked out of guest mode leaves it.
LEMMA KickKeepsInv == ASSUME RunInv, NEW v \in Vectors, Kick(v) PROVE RunInv'
<1>1. ThreadTypeOK'
  BY DEF RunInv, TypeOK, ThreadTypeOK, Kick, Kicked
<1>2. SenderTypeOK'
  BY DEF RunInv, TypeOK, SenderTypeOK, Kick, apicvVars, SenderTo
<1>3. Places'
  BY DEF RunInv, Places, Inside, Blocking, Kick, apicvVars, Kicked
<1>4. TdApart'
  BY DEF RunInv, TdApart, Sends, Kick, apicVars, apicvVars, SenderTo
<1>5. Changes'
  BY DEF RunInv, Changes, Kick, apicvVars
<1>6. Posting'
  BY DEF RunInv, Posting, Sends, Kick, apicVars, apicvVars, SenderTo, Kicked
<1>7. Looking'
  BY DEF RunInv, Looking, Sends, Deliverable, Kick, apicVars, apicvVars, SenderTo
<1>8. ApicTypeOK' /\ ApicvAgrees' /\ ServedIsReal'
  BY DEF RunInv, TypeOK, ApicTypeOK, ApicvAgrees, ServedIsReal, NoVector, Kick,
     apicVars, apicvVars
<1>9. QED
  BY <1>1, <1>2, <1>3, <1>4, <1>5, <1>6, <1>7, <1>8 DEF RunInv, TypeOK

\* The VCPU is asked to look at the inhibition.
LEMMA ToggleStartKeepsInv == ASSUME RunInv, ToggleStart PROVE RunInv'
<1>1. SenderTypeOK'
  BY RunAssumption DEF RunInv, TypeOK, SenderTypeOK, ToggleStart
<1>2. TdApart'
  BY DEF RunInv, TdApart, Sends, ToggleStart, vcpuVars, apicVars
<1>3. Changes'
  BY DEF RunInv, Changes, ToggleStart, vcpuVars
<1>4. Looking'
  BY DEF RunInv, Looking, Sends, Deliverable, ToggleStart, vcpuVars, apicVars
<1>5. ThreadTypeOK' /\ ApicTypeOK' /\ Places' /\ Posting' /\ ApicvAgrees' /\ ServedIsReal'
  BY DEF RunInv, TypeOK, ThreadTypeOK, ApicTypeOK, Places, Posting, ApicvAgrees,
     ServedIsReal, Inside, Blocking, Sends, NoVector, ToggleStart, vcpuVars, apicVars
<1>6. QED
  BY <1>1, <1>2, <1>3, <1>4, <1>5 DEF RunInv, TypeOK

\* A VCPU outside guest mode cannot enter past the request.
LEMMA ToggleKickKeepsInv == ASSUME RunInv, ToggleKick PROVE RunInv'
<1>1. ThreadTypeOK'
  BY DEF RunInv, TypeOK, ThreadTypeOK, ToggleKick, Kicked
<1>2. SenderTypeOK'
  BY DEF RunInv, TypeOK, SenderTypeOK, ToggleKick
<1>3. Places'
  BY DEF RunInv, Places, Inside, Blocking, ToggleKick, Kicked
<1>4. TdApart'
  BY DEF RunInv, TdApart, Sends, ToggleKick, apicVars
<1>5. Changes'
  BY DEF RunInv, Changes, Places, Inside, ToggleKick
<1>6. Posting'
  BY DEF RunInv, Posting, Sends, ToggleKick, apicVars, Kicked
<1>7. ApicTypeOK' /\ Looking' /\ ApicvAgrees' /\ ServedIsReal'
  BY DEF RunInv, TypeOK, ApicTypeOK, Looking, ApicvAgrees, ServedIsReal, Sends,
     Deliverable, NoVector, ToggleKick, apicVars
<1>8. QED
  BY <1>1, <1>2, <1>3, <1>4, <1>5, <1>6, <1>7 DEF RunInv, TypeOK

\* The VCPU has taken the IPI: it is out.
LEMMA ToggleAckedKeepsInv == ASSUME RunInv, ToggleAcked PROVE RunInv'
<1>1. SenderTypeOK'
  BY DEF RunInv, TypeOK, SenderTypeOK, ToggleAcked
<1>2. TdApart'
  BY DEF RunInv, TdApart, Sends, ToggleAcked, vcpuVars, apicVars
<1>3. Changes'
  BY DEF RunInv, Changes, ToggleAcked, vcpuVars
<1>4. ThreadTypeOK' /\ ApicTypeOK' /\ Places' /\ Posting' /\ Looking'
      /\ ApicvAgrees' /\ ServedIsReal'
  BY DEF RunInv, TypeOK, ThreadTypeOK, ApicTypeOK, Places, Posting, Looking,
     ApicvAgrees, ServedIsReal, Inside, Blocking, Sends, Deliverable, NoVector,
     ToggleAcked, vcpuVars, apicVars
<1>5. QED
  BY <1>1, <1>2, <1>3, <1>4 DEF RunInv, TypeOK

\* The inhibition changes while the VCPU is out of the guest and asked to look.
LEMMA ToggleFlipKeepsInv == ASSUME RunInv, ToggleFlip PROVE RunInv'
<1>1. SenderTypeOK'
  BY DEF RunInv, TypeOK, SenderTypeOK, ToggleFlip
<1>2. TdApart'
  BY DEF RunInv, TdApart, Sends, ToggleFlip, vcpuVars, apicVars
<1>3. Changes'
  BY DEF RunInv, Changes, ToggleFlip, vcpuVars
<1>4. ApicvAgrees'
  BY DEF RunInv, ApicvAgrees, Changes, ToggleFlip, vcpuVars
<1>5. ThreadTypeOK' /\ ApicTypeOK' /\ Places' /\ Posting' /\ Looking' /\ ServedIsReal'
  BY DEF RunInv, TypeOK, ThreadTypeOK, ApicTypeOK, Places, Posting, Looking,
     ServedIsReal, Inside, Blocking, Sends, Deliverable, NoVector, ToggleFlip, vcpuVars,
     apicVars
<1>6. QED
  BY <1>1, <1>2, <1>3, <1>4, <1>5 DEF RunInv, TypeOK

\* A VCPU that goes on to the guest takes the request with it.
LEMMA TopKeepsInv == ASSUME RunInv, Top PROVE RunInv'
<1>1. ThreadTypeOK'
  BY DEF RunInv, TypeOK, ThreadTypeOK, Top
<1>2. SenderTypeOK'
  BY DEF RunInv, TypeOK, SenderTypeOK, Top, apicvVars
<1>3. Places'
  BY DEF RunInv, Places, Inside, Blocking, Top, apicvVars
<1>4. TdApart'
  BY DEF RunInv, TdApart, Sends, Top, apicVars, apicvVars
<1>5. Changes'
  BY DEF RunInv, Changes, Top, apicvVars
<1>6. Posting'
  BY DEF RunInv, Posting, Sends, Top, apicVars, apicvVars
<1>7. Looking'
  BY DEF RunInv, Looking, Sends, Deliverable, Top, apicVars, apicvVars
<1>8. ApicvAgrees'
  BY DEF RunInv, ApicvAgrees, Top, apicvVars
<1>9. ApicTypeOK' /\ ServedIsReal'
  BY DEF RunInv, TypeOK, ApicTypeOK, ServedIsReal, NoVector, Top, apicVars
<1>10. QED
  BY <1>1, <1>2, <1>3, <1>4, <1>5, <1>6, <1>7, <1>8, <1>9 DEF RunInv, TypeOK

\* The VCPU agrees with the VM.
LEMMA UpdateApicvKeepsInv == ASSUME RunInv, UpdateApicv PROVE RunInv'
<1>1. ThreadTypeOK'
  BY DEF RunInv, TypeOK, ThreadTypeOK, UpdateApicv
<1>2. SenderTypeOK'
  BY DEF RunInv, TypeOK, SenderTypeOK, UpdateApicv
<1>3. Places'
  BY DEF RunInv, Places, Inside, Blocking, UpdateApicv
<1>4. TdApart'
  BY DEF RunInv, TdApart, Sends, UpdateApicv, apicVars
<1>5. Changes'
  BY DEF RunInv, Changes, UpdateApicv
<1>6. Posting'
  BY DEF RunInv, Posting, Sends, UpdateApicv, apicVars
<1>7. Looking'
  BY DEF RunInv, Looking, Sends, Deliverable, UpdateApicv, apicVars
<1>8. ApicvAgrees'
  BY DEF RunInv, ApicvAgrees, UpdateApicv
<1>9. ApicTypeOK' /\ ServedIsReal'
  BY DEF RunInv, TypeOK, ApicTypeOK, ServedIsReal, NoVector, UpdateApicv, apicVars
<1>10. QED
  BY <1>1, <1>2, <1>3, <1>4, <1>5, <1>6, <1>7, <1>8, <1>9 DEF RunInv, TypeOK

\* Nothing to inject.
LEMMA NoEventKeepsInv == ASSUME RunInv, NoEvent PROVE RunInv'
<1>1. ThreadTypeOK'
  BY DEF RunInv, TypeOK, ThreadTypeOK, NoEvent
<1>2. Places'
  BY DEF RunInv, Places, Inside, Blocking, NoEvent, apicvVars
<1>3. TdApart'
  BY DEF RunInv, TdApart, Sends, NoEvent, apicVars, apicvVars
<1>4. Changes'
  BY DEF RunInv, Changes, NoEvent, apicvVars
<1>5. Posting'
  BY DEF RunInv, Posting, Sends, NoEvent, apicVars, apicvVars
<1>6. Looking'
  BY DEF RunInv, Looking, Sends, Deliverable, NoEvent, apicVars, apicvVars
<1>7. ApicvAgrees'
  BY DEF RunInv, ApicvAgrees, NoEvent, apicvVars
<1>8. ApicTypeOK' /\ SenderTypeOK' /\ ServedIsReal'
  BY DEF RunInv, TypeOK, ApicTypeOK, SenderTypeOK, ServedIsReal, NoVector, NoEvent,
     apicVars, apicvVars
<1>9. QED
  BY <1>1, <1>2, <1>3, <1>4, <1>5, <1>6, <1>7, <1>8 DEF RunInv, TypeOK

\* With APICv the next entry looks at the IRR.
LEMMA InjectNothingKeepsInv == ASSUME RunInv, InjectNothing PROVE RunInv'
<1>1. ThreadTypeOK'
  BY DEF RunInv, TypeOK, ThreadTypeOK, InjectNothing
<1>2. SenderTypeOK'
  BY DEF RunInv, TypeOK, SenderTypeOK, InjectNothing, apicvVars
<1>3. Places'
  BY DEF RunInv, Places, Inside, Blocking, InjectNothing, apicvVars
<1>4. TdApart'
  BY DEF RunInv, TdApart, Sends, InjectNothing, apicVars, apicvVars
<1>5. Changes'
  BY DEF RunInv, Changes, InjectNothing, apicvVars
<1>6. Posting'
  BY DEF RunInv, Posting, Sends, InjectNothing, apicVars, apicvVars
<1>7. Looking'
  BY DEF RunInv, Looking, Sends, Deliverable, InjectNothing, apicVars, apicvVars
<1>8. ApicvAgrees'
  BY DEF RunInv, ApicvAgrees, InjectNothing, apicvVars
<1>9. ApicTypeOK' /\ ServedIsReal'
  BY DEF RunInv, TypeOK, ApicTypeOK, ServedIsReal, NoVector, InjectNothing, apicVars
<1>10. QED
  BY <1>1, <1>2, <1>3, <1>4, <1>5, <1>6, <1>7, <1>8, <1>9 DEF RunInv, TypeOK

\* The highest vector is injected, or what keeps it from being is noted.
LEMMA InjectKeepsInv == ASSUME RunInv, Inject PROVE RunInv'
<1>1. ThreadTypeOK'
  <2>1. irr \in SUBSET Vectors /\ Posted \in SUBSET Vectors
    BY DEF RunInv, TypeOK, ApicTypeOK, Posted
  <2>2. Highest(irr \cup Posted) \in Vectors \cup {NoVector}
    BY <2>1, HighestBounds DEF NoVector
  <2>3. event' \in {event, Highest(irr \cup Posted)}
    BY DEF Inject
  <2>4. {immediate', window'} \subseteq BOOLEAN
    BY DEF RunInv, TypeOK, ThreadTypeOK, Inject
  <2>5. QED
    BY <2>2, <2>3, <2>4 DEF RunInv, TypeOK, ThreadTypeOK, Inject
<1>2. ApicTypeOK'
  <2>1. irr \in SUBSET Vectors /\ Posted \in SUBSET Vectors
    BY DEF RunInv, TypeOK, ApicTypeOK, Posted
  <2>2. Highest(irr \cup Posted) \in Vectors \cup {NoVector}
    BY <2>1, HighestBounds DEF NoVector
  <2>3. irr' \in SUBSET Vectors
    BY <2>1 DEF Inject
  <2>4. isr' \in SUBSET Vectors
    <3>1. CASE isr' = isr
      BY <3>1 DEF RunInv, TypeOK, ApicTypeOK
    <3>2. CASE isr' # isr
      <4>1. Deliverable(irr \cup Posted) /\ isr' = isr \cup {Highest(irr \cup Posted)}
        BY <3>2 DEF Inject
      <4>2. Highest(irr \cup Posted) # NoVector
        BY <2>1, <4>1, HighestBounds DEF Deliverable, NoVector, RunInv, TypeOK, ApicTypeOK
      <4>3. QED
        BY <2>2, <4>1, <4>2 DEF RunInv, TypeOK, ApicTypeOK
    <3>3. QED
      BY <3>1, <3>2
  <2>5. /\ pir' \in SUBSET Vectors /\ begun' \in SUBSET Vectors
        /\ rvi' \in Vectors \cup {NoVector} /\ on' \in BOOLEAN
    BY <2>2 DEF RunInv, TypeOK, ApicTypeOK, Inject, Sync
  <2>6. QED
    BY <2>3, <2>4, <2>5 DEF ApicTypeOK
<1>3. SenderTypeOK'
  BY DEF RunInv, TypeOK, SenderTypeOK, Inject, apicvVars, Posted, RequestFor,
     Deliverable, NoVector
<1>4. Places'
  BY DEF RunInv, Places, Inside, Blocking, Inject, apicvVars, Deliverable, NoVector
<1>5. TdApart'
  BY DEF RunInv, TdApart, Sends, Inject, apicvVars, Posted, RequestFor, Sync,
     Deliverable, NoVector
<1>6. Changes'
  BY DEF RunInv, Changes, Inject, apicvVars, Posted, RequestFor, Deliverable, NoVector
<1>7. Posting'
  BY DEF RunInv, Posting, Sends, Inject, apicvVars, Posted, RequestFor, Sync,
     Deliverable, NoVector
<1>8. Looking'
  BY HighestBounds DEF RunInv, Looking, TypeOK, ApicTypeOK, Sends, Deliverable,
     Inject, apicvVars, Posted, RequestFor, Sync
<1>9. ApicvAgrees'
  BY DEF RunInv, ApicvAgrees, Inject, apicvVars, Deliverable, NoVector
<1>10. ServedIsReal'
  BY HighestBounds DEF RunInv, ServedIsReal, TypeOK, ApicTypeOK, NoVector, Inject,
     Deliverable
<1>11. QED
  BY <1>1, <1>2, <1>3, <1>4, <1>5, <1>6, <1>7, <1>8, <1>9, <1>10 DEF RunInv, TypeOK

\* The mode is set before anything is looked at for the last time.
LEMMA EnterKeepsInv == ASSUME RunInv, Enter PROVE RunInv'
<1>1. ThreadTypeOK'
  BY DEF RunInv, TypeOK, ThreadTypeOK, Enter
<1>2. Places'
  BY DEF RunInv, Places, Inside, Blocking, Enter, apicvVars
<1>3. TdApart'
  BY DEF RunInv, TdApart, Sends, Enter, apicVars, apicvVars
<1>4. Changes'
  BY DEF RunInv, Changes, Enter, apicvVars
<1>5. Posting'
  BY DEF RunInv, Posting, Sends, Enter, apicVars, apicvVars
<1>6. Looking'
  BY DEF RunInv, Looking, TdApart, Sends, Deliverable, Enter, apicVars, apicvVars
<1>7. ApicvAgrees'
  BY DEF RunInv, ApicvAgrees, Enter, apicvVars
<1>8. ApicTypeOK' /\ SenderTypeOK' /\ ServedIsReal'
  BY DEF RunInv, TypeOK, ApicTypeOK, SenderTypeOK, ServedIsReal, NoVector, Enter,
     apicVars, apicvVars
<1>9. QED
  BY <1>1, <1>2, <1>3, <1>4, <1>5, <1>6, <1>7, <1>8 DEF RunInv, TypeOK

\* ON is cleared before the descriptor is read.
LEMMA ClearOnKeepsInv == ASSUME RunInv, ClearOn PROVE RunInv'
<1>1. ThreadTypeOK'
  BY DEF RunInv, TypeOK, ThreadTypeOK, ClearOn
<1>2. ApicTypeOK'
  <2>1. Highest(irr) \in Vectors \cup {NoVector}
    BY HighestBounds DEF NoVector, RunInv, TypeOK, ApicTypeOK
  <2>2. QED
    BY <2>1 DEF RunInv, TypeOK, ApicTypeOK, ClearOn
<1>3. Places'
  BY DEF RunInv, Places, Inside, Blocking, ClearOn, apicvVars
<1>4. TdApart'
  BY DEF RunInv, TdApart, Sends, ClearOn, apicvVars
<1>5. Changes'
  BY DEF RunInv, Changes, ClearOn, apicvVars
<1>6. Posting'
  BY DEF RunInv, Posting, Sends, ClearOn, apicvVars
<1>7. Looking'
  BY DEF RunInv, Looking, Sends, Deliverable, ClearOn, apicvVars
<1>8. ApicvAgrees'
  BY DEF RunInv, ApicvAgrees, ClearOn, apicvVars
<1>9. SenderTypeOK' /\ ServedIsReal'
  BY DEF RunInv, TypeOK, SenderTypeOK, ServedIsReal, NoVector, ClearOn, apicvVars
<1>10. QED
  BY <1>1, <1>2, <1>3, <1>4, <1>5, <1>6, <1>7, <1>8, <1>9 DEF RunInv, TypeOK

\* What was posted is in the IRR, and in RVI or requested.
LEMMA TakePirKeepsInv == ASSUME RunInv, TakePir PROVE RunInv'
<1>1. ThreadTypeOK'
  BY DEF RunInv, TypeOK, ThreadTypeOK, TakePir
<1>2. ApicTypeOK'
  BY HighestBounds DEF RunInv, TypeOK, ApicTypeOK, NoVector, TakePir, RequestFor
<1>3. SenderTypeOK'
  BY DEF RunInv, TypeOK, SenderTypeOK, TakePir, apicvVars, RequestFor
<1>4. Places'
  BY DEF RunInv, Places, Inside, Blocking, TakePir, apicvVars
<1>5. TdApart'
  BY DEF RunInv, TdApart, Sends, TakePir, apicvVars, RequestFor
<1>6. Changes'
  BY DEF RunInv, Changes, TakePir, apicvVars, RequestFor
<1>7. Posting'
  BY DEF RunInv, Posting, Sends, TakePir, apicvVars, RequestFor
<1>8. Looking'
  BY HighestBounds DEF RunInv, Looking, TypeOK, ApicTypeOK, Sends, Deliverable,
     TakePir, apicvVars, RequestFor
<1>9. ApicvAgrees'
  BY DEF RunInv, ApicvAgrees, TakePir, apicvVars
<1>10. ServedIsReal'
  BY DEF RunInv, ServedIsReal, NoVector, TakePir
<1>11. QED
  BY <1>1, <1>2, <1>3, <1>4, <1>5, <1>6, <1>7, <1>8, <1>9, <1>10 DEF RunInv, TypeOK

\* An entry that is cancelled starts over.
LEMMA CancelKeepsInv == ASSUME RunInv, Cancel PROVE RunInv'
<1>1. ThreadTypeOK'
  BY DEF RunInv, TypeOK, ThreadTypeOK, Cancel, NoVector
<1>2. SenderTypeOK'
  BY DEF RunInv, TypeOK, SenderTypeOK, Cancel, apicvVars, NoVector
<1>3. Places'
  BY DEF RunInv, Places, Inside, Blocking, Cancel, apicvVars, NoVector
<1>4. TdApart'
  BY DEF RunInv, TdApart, Sends, Cancel, apicVars, apicvVars, NoVector
<1>5. Changes'
  BY DEF RunInv, Changes, Cancel, apicvVars, NoVector
<1>6. Posting'
  BY DEF RunInv, Posting, Sends, Cancel, apicVars, apicvVars, NoVector
<1>7. Looking'
  BY DEF RunInv, Looking, Sends, Deliverable, Cancel, apicVars, apicvVars, NoVector
<1>8. ApicvAgrees'
  BY DEF RunInv, ApicvAgrees, Cancel, apicvVars, NoVector
<1>9. ApicTypeOK' /\ ServedIsReal'
  BY DEF RunInv, TypeOK, ApicTypeOK, ServedIsReal, NoVector, Cancel, apicVars
<1>10. QED
  BY <1>1, <1>2, <1>3, <1>4, <1>5, <1>6, <1>7, <1>8, <1>9 DEF RunInv, TypeOK

\* Nobody kicked and nothing is requested; a TD notifies itself of what is posted.
LEMMA VmEntryKeepsInv == ASSUME RunInv, VmEntry PROVE RunInv'
<1>1. ThreadTypeOK'
  BY DEF RunInv, TypeOK, ThreadTypeOK, VmEntry
<1>2. SenderTypeOK'
  BY DEF RunInv, TypeOK, SenderTypeOK, VmEntry, apicvVars
<1>3. Places'
  BY DEF RunInv, Places, Inside, Blocking, VmEntry, apicvVars
<1>4. TdApart'
  BY DEF RunInv, TdApart, Sends, VmEntry, apicVars, apicvVars
<1>5. Changes'
  BY DEF RunInv, Changes, VmEntry, apicvVars
<1>6. Posting'
  BY DEF RunInv, Posting, Sends, VmEntry, apicVars, apicvVars
<1>7. Looking'
  BY DEF RunInv, Looking, Sends, Deliverable, VmEntry, apicVars, apicvVars
<1>8. ApicvAgrees'
  BY DEF RunInv, TypeOK, ApicvAgrees, SenderTypeOK, Changes, VmEntry, apicvVars
<1>9. ApicTypeOK' /\ ServedIsReal'
  BY DEF RunInv, TypeOK, ApicTypeOK, ServedIsReal, NoVector, VmEntry, apicVars
<1>10. QED
  BY <1>1, <1>2, <1>3, <1>4, <1>5, <1>6, <1>7, <1>8, <1>9 DEF RunInv, TypeOK

\* An event whose delivery was interrupted is requested again.
LEMMA ExitedKeepsInv == ASSUME RunInv, Exited PROVE RunInv'
<1>1. ThreadTypeOK'
  BY DEF RunInv, TypeOK, ThreadTypeOK, Exited, NoVector
<1>2. SenderTypeOK'
  BY DEF RunInv, TypeOK, SenderTypeOK, Exited, apicvVars, NoVector
<1>3. Places'
  BY DEF RunInv, Places, Inside, Blocking, Exited, apicvVars, NoVector
<1>4. TdApart'
  BY DEF RunInv, TdApart, Sends, Exited, apicVars, apicvVars, NoVector
<1>5. Changes'
  BY DEF RunInv, Changes, Exited, apicvVars, NoVector
<1>6. Posting'
  BY DEF RunInv, Posting, Sends, Exited, apicVars, apicvVars, NoVector
<1>7. Looking'
  BY DEF RunInv, Looking, Sends, Deliverable, Exited, apicVars, apicvVars, NoVector
<1>8. ApicvAgrees'
  BY DEF RunInv, ApicvAgrees, Exited, apicvVars, NoVector
<1>9. ApicTypeOK' /\ ServedIsReal'
  BY DEF RunInv, TypeOK, ApicTypeOK, ServedIsReal, NoVector, Exited, apicVars
<1>10. QED
  BY <1>1, <1>2, <1>3, <1>4, <1>5, <1>6, <1>7, <1>8, <1>9 DEF RunInv, TypeOK

\* The exit's reason becomes a request, or the VCPU halts.
LEMMA HandleExitKeepsInv == ASSUME RunInv, HandleExit PROVE RunInv'
<1>1. ThreadTypeOK'
  BY DEF RunInv, TypeOK, ThreadTypeOK, HandleExit
<1>2. SenderTypeOK'
  BY DEF RunInv, TypeOK, SenderTypeOK, HandleExit, apicvVars
<1>3. Places'
  BY DEF RunInv, Places, Inside, Blocking, HandleExit, apicvVars
<1>4. TdApart'
  BY DEF RunInv, TdApart, Sends, HandleExit, apicVars, apicvVars
<1>5. Changes'
  BY DEF RunInv, Changes, HandleExit, apicvVars
<1>6. Posting'
  BY DEF RunInv, Posting, Sends, HandleExit, apicVars, apicvVars
<1>7. Looking'
  BY DEF RunInv, Looking, Sends, Deliverable, HandleExit, apicVars, apicvVars
<1>8. ApicvAgrees'
  BY DEF RunInv, ApicvAgrees, HandleExit, apicvVars
<1>9. ApicTypeOK' /\ ServedIsReal'
  BY DEF RunInv, TypeOK, ApicTypeOK, ServedIsReal, NoVector, HandleExit, apicVars
<1>10. QED
  BY <1>1, <1>2, <1>3, <1>4, <1>5, <1>6, <1>7, <1>8, <1>9 DEF RunInv, TypeOK

\* The thread's state changes before the conditions are read.
LEMMA BlockKeepsInv == ASSUME RunInv, Block PROVE RunInv'
<1>1. ThreadTypeOK'
  BY DEF RunInv, TypeOK, ThreadTypeOK, Block
<1>2. SenderTypeOK'
  BY DEF RunInv, TypeOK, SenderTypeOK, Block, apicvVars
<1>3. Places'
  BY DEF RunInv, Places, Inside, Blocking, Block, apicvVars
<1>4. TdApart'
  BY DEF RunInv, TdApart, Sends, Block, apicVars, apicvVars
<1>5. Changes'
  BY DEF RunInv, Changes, Block, apicvVars
<1>6. Posting'
  BY DEF RunInv, Posting, Sends, Block, apicVars, apicvVars
<1>7. Looking'
  BY DEF RunInv, Looking, Sends, Deliverable, Block, apicVars, apicvVars
<1>8. ApicvAgrees'
  BY DEF RunInv, ApicvAgrees, Block, apicvVars
<1>9. ApicTypeOK' /\ ServedIsReal'
  BY DEF RunInv, TypeOK, ApicTypeOK, ServedIsReal, NoVector, Block, apicVars
<1>10. QED
  BY <1>1, <1>2, <1>3, <1>4, <1>5, <1>6, <1>7, <1>8, <1>9 DEF RunInv, TypeOK

\* A TD's VCPU sleeps only if nothing is posted and nothing is deliverable.
LEMMA CheckTdKeepsInv == ASSUME RunInv, CheckTd PROVE RunInv'
<1>1. ThreadTypeOK'
  BY DEF RunInv, TypeOK, ThreadTypeOK, CheckTd, TdHasInterrupt
<1>2. SenderTypeOK'
  BY DEF RunInv, TypeOK, SenderTypeOK, CheckTd, apicvVars, TdHasInterrupt
<1>3. Places'
  BY DEF RunInv, Places, Inside, Blocking, CheckTd, apicvVars, TdHasInterrupt
<1>4. TdApart'
  BY DEF RunInv, TdApart, Sends, CheckTd, apicVars, apicvVars, TdHasInterrupt
<1>5. Changes'
  BY DEF RunInv, Changes, CheckTd, apicvVars, TdHasInterrupt
<1>6. Posting'
  BY DEF RunInv, Posting, Sends, CheckTd, apicVars, apicvVars, TdHasInterrupt
<1>7. Looking'
  BY DEF RunInv, Looking, TdApart, Deliverable, CheckTd, apicVars, apicvVars,
     TdHasInterrupt
<1>8. ApicvAgrees'
  BY DEF RunInv, ApicvAgrees, CheckTd, apicvVars, TdHasInterrupt
<1>9. ApicTypeOK' /\ ServedIsReal'
  BY DEF RunInv, TypeOK, ApicTypeOK, ServedIsReal, NoVector, CheckTd, apicVars
<1>10. QED
  BY <1>1, <1>2, <1>3, <1>4, <1>5, <1>6, <1>7, <1>8, <1>9 DEF RunInv, TypeOK

\* Any other one takes what is posted first.
LEMMA CheckKeepsInv == ASSUME RunInv, Check PROVE RunInv'
<1>1. ThreadTypeOK'
  BY DEF RunInv, TypeOK, ThreadTypeOK, Check, Deliverable
<1>2. ApicTypeOK'
  <2>1. irr \in SUBSET Vectors /\ Posted \in SUBSET Vectors
    BY DEF RunInv, TypeOK, ApicTypeOK, Posted
  <2>2. Highest(irr \cup Posted) \in Vectors \cup {NoVector}
    BY <2>1, HighestBounds DEF NoVector
  <2>3. pir' \in SUBSET Vectors /\ irr' \in SUBSET Vectors
    BY <2>1 DEF RunInv, TypeOK, ApicTypeOK, Check, Sync
  <2>4. rvi' \in Vectors \cup {NoVector} /\ on' \in BOOLEAN
    BY <2>2 DEF RunInv, TypeOK, ApicTypeOK, Check, Sync
  <2>5. QED
    BY <2>3, <2>4 DEF RunInv, TypeOK, ApicTypeOK, Check
<1>3. SenderTypeOK'
  BY DEF RunInv, TypeOK, SenderTypeOK, Check, apicvVars, Posted, RequestFor,
     Deliverable
<1>4. Places'
  BY DEF RunInv, Places, Inside, Blocking, Check, apicvVars, Deliverable
<1>5. TdApart'
  BY DEF RunInv, TdApart, Sends, Check, apicvVars, Posted, RequestFor, Sync,
     Deliverable
<1>6. Changes'
  BY DEF RunInv, Changes, Check, apicvVars, Posted, RequestFor, Deliverable
<1>7. Posting'
  BY DEF RunInv, Posting, Places, Blocking, Sends, Check, Posted, RequestFor, Sync
<1>8. Looking'
  <2>1. iflag
    BY DEF RunInv, Places, Blocking, Check
  <2>2. /\ irr' = irr \cup Posted /\ isr' = isr /\ td' = td /\ ~td
        /\ apicv' = apicv /\ window' = window /\ why' = why /\ sender' = sender
        /\ requests' = requests \cup RequestFor(Posted)
        /\ pc' \in {"unblock", "sleep"} /\ asleep' = (asleep /\ ~Deliverable(irr)')
    BY <2>1 DEF Check, apicvVars, Deliverable
  <2>3. irr \in SUBSET Vectors /\ Posted \in SUBSET Vectors /\ isr \in SUBSET Vectors
    BY DEF RunInv, TypeOK, ApicTypeOK, Posted
  <2>4. ~apicv /\ Deliverable(irr \cup Posted)
          => Deliverable(irr) \/ "EVENT" \in RequestFor(Posted)
    <3>1. SUFFICES ASSUME ~apicv, Deliverable(irr \cup Posted), ~Deliverable(irr)
                   PROVE  Highest(Posted \ irr) > Highest(irr)
      BY DEF RequestFor
    <3> DEFINE top == Highest(irr \cup Posted)
    <3>2. top \in irr \cup Posted /\ top > Highest(isr)
      BY <2>3, <3>1, HighestBounds DEF Deliverable
    <3>3. top \notin irr /\ top > Highest(irr)
      BY <2>3, <3>1, <3>2, HighestBounds DEF Deliverable
    <3>4. QED
      BY <2>3, <3>2, <3>3, HighestBounds
  <2>5. Deliverable(irr)' = Deliverable(irr \cup Posted)
    BY <2>2 DEF Deliverable
  <2>6. ~td /\ ~apicv /\ Deliverable(irr)
          => "EVENT" \in requests \/ Sends({"request"}) \/ window \/ why = "eoi"
    BY DEF RunInv, Looking, Check
  <2>7. Sends({"request"})' = Sends({"request"})
    BY <2>2 DEF Sends
  <2>8. QED
    BY <2>2, <2>4, <2>5, <2>6, <2>7 DEF Looking
<1>9. ApicvAgrees'
  BY DEF RunInv, ApicvAgrees, Check, apicvVars, Deliverable
<1>10. ServedIsReal'
  BY DEF RunInv, ServedIsReal, NoVector, Check
<1>11. QED
  BY <1>1, <1>2, <1>3, <1>4, <1>5, <1>6, <1>7, <1>8, <1>9, <1>10 DEF RunInv, TypeOK

\* A VCPU that was woken up looks again.
LEMMA WakeKeepsInv == ASSUME RunInv, Wake PROVE RunInv'
<1>1. ThreadTypeOK'
  BY DEF RunInv, TypeOK, ThreadTypeOK, Wake
<1>2. Places'
  BY DEF RunInv, Places, Inside, Blocking, Wake, apicvVars
<1>3. TdApart'
  BY DEF RunInv, TdApart, Sends, Wake, apicVars, apicvVars
<1>4. Changes'
  BY DEF RunInv, Changes, Wake, apicvVars
<1>5. Posting'
  BY DEF RunInv, Posting, Sends, Wake, apicVars, apicvVars
<1>6. Looking'
  BY DEF RunInv, Looking, Sends, Deliverable, Wake, apicVars, apicvVars
<1>7. ApicvAgrees'
  BY DEF RunInv, ApicvAgrees, Wake, apicvVars
<1>8. ApicTypeOK' /\ SenderTypeOK' /\ ServedIsReal'
  BY DEF RunInv, TypeOK, ApicTypeOK, SenderTypeOK, ServedIsReal, NoVector, Wake,
     apicVars, apicvVars
<1>9. QED
  BY <1>1, <1>2, <1>3, <1>4, <1>5, <1>6, <1>7, <1>8 DEF RunInv, TypeOK

\* The VCPU is runnable.
LEMMA UnblockKeepsInv == ASSUME RunInv, Unblock PROVE RunInv'
<1>1. ThreadTypeOK'
  BY DEF RunInv, TypeOK, ThreadTypeOK, Unblock
<1>2. Places'
  BY DEF RunInv, Places, Inside, Blocking, Unblock, apicvVars
<1>3. TdApart'
  BY DEF RunInv, TdApart, Sends, Unblock, apicVars, apicvVars
<1>4. Changes'
  BY DEF RunInv, Changes, Unblock, apicvVars
<1>5. Posting'
  BY DEF RunInv, Posting, Sends, Unblock, apicVars, apicvVars
<1>6. Looking'
  BY DEF RunInv, Looking, Sends, Deliverable, Unblock, apicVars, apicvVars
<1>7. ApicvAgrees'
  BY DEF RunInv, ApicvAgrees, Unblock, apicvVars
<1>8. ApicTypeOK' /\ SenderTypeOK' /\ ServedIsReal'
  BY DEF RunInv, TypeOK, ApicTypeOK, SenderTypeOK, ServedIsReal, NoVector, Unblock,
     apicVars, apicvVars
<1>9. QED
  BY <1>1, <1>2, <1>3, <1>4, <1>5, <1>6, <1>7, <1>8 DEF RunInv, TypeOK

\* The CPU moves what is posted to the IRR, and RVI is its highest vector again.
LEMMA GuestNotifiedKeepsInv == ASSUME RunInv, GuestNotified PROVE RunInv'
<1>1. ApicTypeOK'
  <2>1. rvi \in Vectors \cup {NoVector} /\ pir \in SUBSET Vectors /\ irr \in SUBSET Vectors
    BY DEF RunInv, TypeOK, ApicTypeOK
  <2>2. Max({rvi} \cup pir) = IF rvi >= Highest(pir) THEN rvi ELSE Highest(pir)
    BY <2>1, MaxWith
  <2>3. Highest(pir) \in Vectors \cup {NoVector}
    BY <2>1, HighestBounds DEF NoVector
  <2>4. rvi' \in Vectors \cup {NoVector}
    BY <2>1, <2>2, <2>3 DEF GuestNotified
  <2>5. QED
    BY <2>1, <2>4 DEF RunInv, TypeOK, ApicTypeOK, GuestNotified
<1>2. SenderTypeOK'
  BY DEF RunInv, TypeOK, SenderTypeOK, GuestNotified, apicvVars, NoVector
<1>3. TdApart'
  <2>1. rvi \in Vectors \cup {NoVector} /\ pir \in SUBSET Vectors /\ irr \in SUBSET Vectors
    BY DEF RunInv, TypeOK, ApicTypeOK
  <2>2. rvi = Highest(irr) => rvi' = Highest(irr)'
    BY <2>1, HighestOfUnion DEF GuestNotified
  <2>3. QED
    BY <2>2 DEF RunInv, TdApart, Sends, GuestNotified, vcpuVars, apicvVars
<1>4. Changes'
  BY DEF RunInv, Changes, GuestNotified, vcpuVars, apicvVars, NoVector
<1>5. Posting'
  BY DEF RunInv, Posting, Sends, GuestNotified, vcpuVars, apicvVars, NoVector
<1>6. Looking'
  <2>1. rvi \in Vectors \cup {NoVector} /\ pir \in SUBSET Vectors /\ irr \in SUBSET Vectors
    BY DEF RunInv, TypeOK, ApicTypeOK
  <2>2. rvi = Highest(irr) => rvi' = Highest(irr)'
    BY <2>1, HighestOfUnion DEF GuestNotified
  <2>3. ~td => apicv
    BY DEF GuestNotified
  <2>4. QED
    BY <2>2, <2>3 DEF RunInv, Looking, Sends, GuestNotified, vcpuVars, apicvVars
<1>7. ThreadTypeOK' /\ Places' /\ ApicvAgrees' /\ ServedIsReal'
  BY DEF RunInv, TypeOK, ThreadTypeOK, Places, ApicvAgrees, ServedIsReal, Inside,
     Blocking, NoVector, GuestNotified, vcpuVars, apicvVars
<1>8. QED
  BY <1>1, <1>2, <1>3, <1>4, <1>5, <1>6, <1>7 DEF RunInv, TypeOK

\* An IPI makes the VCPU leave.
LEMMA GuestInterruptedKeepsInv == ASSUME RunInv, GuestInterrupted PROVE RunInv'
<1>1. ThreadTypeOK'
  BY DEF RunInv, TypeOK, ThreadTypeOK, GuestInterrupted, Exit, NoVector
<1>2. Places'
  BY DEF RunInv, Places, Inside, Blocking, GuestInterrupted, apicvVars, Exit, NoVector
<1>3. TdApart'
  BY DEF RunInv, TdApart, Sends, GuestInterrupted, apicVars, apicvVars, Exit, NoVector
<1>4. Changes'
  BY DEF RunInv, Changes, GuestInterrupted, apicvVars, Exit, NoVector
<1>5. Posting'
  BY DEF RunInv, Posting, Sends, GuestInterrupted, apicVars, apicvVars, Exit, NoVector
<1>6. Looking'
  BY DEF RunInv, Looking, Places, Sends, Deliverable, GuestInterrupted, apicVars,
     apicvVars, Exit
<1>7. ApicvAgrees'
  BY DEF RunInv, ApicvAgrees, GuestInterrupted, apicvVars, Exit, NoVector
<1>8. ApicTypeOK' /\ SenderTypeOK' /\ ServedIsReal'
  BY DEF RunInv, TypeOK, ApicTypeOK, SenderTypeOK, ServedIsReal, NoVector,
     GuestInterrupted, apicVars, apicvVars
<1>9. QED
  BY <1>1, <1>2, <1>3, <1>4, <1>5, <1>6, <1>7, <1>8 DEF RunInv, TypeOK

\* The window or the timer makes it leave.
LEMMA GuestLeavesKeepsInv == ASSUME RunInv, GuestLeaves PROVE RunInv'
<1>1. ThreadTypeOK'
  BY DEF RunInv, TypeOK, ThreadTypeOK, GuestLeaves, Exit, NoVector
<1>2. Places'
  BY DEF RunInv, Places, Inside, Blocking, GuestLeaves, apicvVars, Exit, NoVector
<1>3. TdApart'
  BY DEF RunInv, TdApart, Sends, GuestLeaves, apicVars, apicvVars, Exit, NoVector
<1>4. Changes'
  BY DEF RunInv, Changes, GuestLeaves, apicvVars, Exit, NoVector
<1>5. Posting'
  BY DEF RunInv, Posting, Sends, GuestLeaves, apicVars, apicvVars, Exit, NoVector
<1>6. Looking'
  BY DEF RunInv, Looking, Places, Sends, Deliverable, GuestLeaves, apicVars,
     apicvVars, Exit
<1>7. ApicvAgrees'
  BY DEF RunInv, ApicvAgrees, GuestLeaves, apicvVars, Exit, NoVector
<1>8. ApicTypeOK' /\ SenderTypeOK' /\ ServedIsReal'
  BY DEF RunInv, TypeOK, ApicTypeOK, SenderTypeOK, ServedIsReal, NoVector,
     GuestLeaves, apicVars, apicvVars
<1>9. QED
  BY <1>1, <1>2, <1>3, <1>4, <1>5, <1>6, <1>7, <1>8 DEF RunInv, TypeOK

\* The CPU delivers the vector RVI holds.
LEMMA GuestTakesKeepsInv == ASSUME RunInv, GuestTakes PROVE RunInv'
<1>1. ThreadTypeOK'
  BY DEF RunInv, TypeOK, ThreadTypeOK, GuestTakes, Recognised, NoVector
<1>2. ApicTypeOK'
  BY HighestBounds DEF RunInv, TypeOK, ApicTypeOK, NoVector, GuestTakes, Recognised
<1>3. Places'
  BY DEF RunInv, Places, Inside, Blocking, GuestTakes, apicvVars, Recognised, NoVector
<1>4. TdApart'
  BY DEF RunInv, TdApart, Sends, GuestTakes, apicvVars, Recognised, NoVector
<1>5. Looking'
  BY DEF RunInv, Looking, Sends, Deliverable, GuestTakes, apicvVars, Recognised,
     NoVector
<1>6. ServedIsReal'
  BY HighestBounds DEF RunInv, ServedIsReal, TypeOK, ApicTypeOK, NoVector, GuestTakes,
     Recognised
<1>7. SenderTypeOK' /\ Changes' /\ Posting' /\ ApicvAgrees'
  BY DEF RunInv, TypeOK, SenderTypeOK, Changes, Posting, ApicvAgrees, Sends,
     GuestTakes, apicvVars
<1>8. QED
  BY <1>1, <1>2, <1>3, <1>4, <1>5, <1>6, <1>7 DEF RunInv, TypeOK

\* The injected vector is being served.
LEMMA EventDeliveredKeepsInv == ASSUME RunInv, EventDelivered PROVE RunInv'
<1>1. ThreadTypeOK'
  BY DEF RunInv, TypeOK, ThreadTypeOK, EventDelivered, NoVector
<1>2. ApicTypeOK'
  BY DEF RunInv, TypeOK, ApicTypeOK, ThreadTypeOK, EventDelivered
<1>3. Places'
  BY DEF RunInv, Places, Inside, Blocking, EventDelivered, apicvVars, NoVector
<1>4. ServedIsReal'
  BY RunAssumption DEF RunInv, ServedIsReal, TypeOK, ApicTypeOK, NoVector,
     EventDelivered
<1>5. SenderTypeOK' /\ TdApart' /\ Changes' /\ Posting' /\ Looking' /\ ApicvAgrees'
  BY DEF RunInv, TypeOK, SenderTypeOK, TdApart, Changes, Posting, Looking,
     ApicvAgrees, Sends, Deliverable, EventDelivered, apicvVars
<1>6. QED
  BY <1>1, <1>2, <1>3, <1>4, <1>5 DEF RunInv, TypeOK

\* An event whose delivery faults is kept.
LEMMA EventFaultsKeepsInv == ASSUME RunInv, EventFaults PROVE RunInv'
<1>1. ThreadTypeOK'
  BY DEF RunInv, TypeOK, ThreadTypeOK, EventFaults, Exit, NoVector
<1>2. Places'
  BY DEF RunInv, Places, Inside, Blocking, EventFaults, apicvVars, Exit, NoVector
<1>3. TdApart'
  BY DEF RunInv, TdApart, Sends, EventFaults, apicVars, apicvVars, Exit, NoVector
<1>4. Changes'
  BY DEF RunInv, Changes, EventFaults, apicvVars, Exit, NoVector
<1>5. Posting'
  BY DEF RunInv, Posting, Sends, EventFaults, apicVars, apicvVars, Exit, NoVector
<1>6. Looking'
  BY DEF RunInv, Looking, Places, Sends, Deliverable, EventFaults, apicVars,
     apicvVars, Exit
<1>7. ApicvAgrees'
  BY DEF RunInv, ApicvAgrees, EventFaults, apicvVars, Exit, NoVector
<1>8. ApicTypeOK' /\ SenderTypeOK' /\ ServedIsReal'
  BY DEF RunInv, TypeOK, ApicTypeOK, SenderTypeOK, ServedIsReal, NoVector,
     EventFaults, apicVars, apicvVars
<1>9. QED
  BY <1>1, <1>2, <1>3, <1>4, <1>5, <1>6, <1>7, <1>8 DEF RunInv, TypeOK

\* The guest changes IF.
LEMMA GuestSetsIfKeepsInv == ASSUME RunInv, GuestSetsIf PROVE RunInv'
<1>1. ThreadTypeOK'
  BY DEF RunInv, TypeOK, ThreadTypeOK, GuestSetsIf, Runs, Recognised, NoVector
<1>2. Places'
  BY DEF RunInv, Places, Inside, Blocking, GuestSetsIf, apicvVars, Runs, Recognised,
     NoVector
<1>3. ApicTypeOK' /\ SenderTypeOK' /\ TdApart' /\ Changes' /\ Posting' /\ Looking'
      /\ ApicvAgrees' /\ ServedIsReal'
  BY DEF RunInv, TypeOK, ApicTypeOK, SenderTypeOK, TdApart, Changes, Posting, Looking,
     ApicvAgrees, ServedIsReal, Sends, Deliverable, NoVector, GuestSetsIf, apicVars,
     apicvVars
<1>4. QED
  BY <1>1, <1>2, <1>3 DEF RunInv, TypeOK

\* What is served ends; without APICv the VCPU leaves and looks again.
LEMMA GuestEoiKeepsInv == ASSUME RunInv, GuestEoi PROVE RunInv'
<1>1. ThreadTypeOK'
  BY DEF RunInv, TypeOK, ThreadTypeOK, GuestEoi, Exit, Runs, Recognised, NoVector
<1>2. ApicTypeOK'
  BY DEF RunInv, TypeOK, ApicTypeOK, GuestEoi, Runs, Recognised, NoVector
<1>3. Places'
  BY DEF RunInv, Places, Inside, Blocking, GuestEoi, apicvVars, Exit, Runs,
     Recognised, NoVector
<1>4. TdApart'
  BY DEF RunInv, TdApart, Sends, GuestEoi, apicvVars, Exit, Runs, Recognised, NoVector
<1>5. Changes'
  BY DEF RunInv, Changes, GuestEoi, apicvVars, Exit, Runs, Recognised, NoVector
<1>6. Posting'
  BY DEF RunInv, Posting, Sends, GuestEoi, apicvVars, Exit, Runs, Recognised, NoVector
<1>7. Looking'
  BY DEF RunInv, Looking, Sends, Deliverable, GuestEoi, apicvVars, Exit, Runs,
     Recognised, NoVector
<1>8. ApicvAgrees'
  BY DEF RunInv, ApicvAgrees, GuestEoi, apicvVars, Exit, Runs, Recognised, NoVector
<1>9. ServedIsReal'
  BY DEF RunInv, ServedIsReal, NoVector, GuestEoi, Runs, Recognised
<1>10. SenderTypeOK'
  BY DEF RunInv, TypeOK, SenderTypeOK, GuestEoi, apicvVars
<1>11. QED
  BY <1>1, <1>2, <1>3, <1>4, <1>5, <1>6, <1>7, <1>8, <1>9, <1>10 DEF RunInv, TypeOK

\* A guest that halts leaves with nothing to take.
LEMMA GuestHltKeepsInv == ASSUME RunInv, GuestHlt PROVE RunInv'
<1>1. ThreadTypeOK'
  BY DEF RunInv, TypeOK, ThreadTypeOK, GuestHlt, Exit, Runs, Recognised, NoVector
<1>2. Places'
  BY DEF RunInv, Places, Inside, Blocking, GuestHlt, apicvVars, Exit, Runs,
     Recognised, NoVector
<1>3. TdApart'
  BY DEF RunInv, TdApart, Sends, GuestHlt, apicVars, apicvVars, Exit, Runs,
     Recognised, NoVector
<1>4. Changes'
  BY DEF RunInv, Changes, GuestHlt, apicvVars, Exit, Runs, Recognised, NoVector
<1>5. Posting'
  BY DEF RunInv, Posting, Sends, GuestHlt, apicVars, apicvVars, Exit, Runs,
     Recognised, NoVector
<1>6. Looking'
  BY DEF RunInv, Looking, Places, Sends, Deliverable, GuestHlt, apicVars, apicvVars,
     Exit, Runs, Recognised
<1>7. ApicvAgrees'
  BY DEF RunInv, ApicvAgrees, GuestHlt, apicvVars, Exit, Runs, Recognised, NoVector
<1>8. ApicTypeOK' /\ SenderTypeOK' /\ ServedIsReal'
  BY DEF RunInv, TypeOK, ApicTypeOK, SenderTypeOK, ServedIsReal, NoVector, GuestHlt,
     apicVars, apicvVars
<1>9. QED
  BY <1>1, <1>2, <1>3, <1>4, <1>5, <1>6, <1>7, <1>8 DEF RunInv, TypeOK

-----------------------------------------------------------------------------

\* Nothing is pending at first.
LEMMA RunInvInit == Init => RunInv
<1> SUFFICES ASSUME Init PROVE RunInv
  OBVIOUS
<1>1. ThreadTypeOK
  BY DEF Init, ThreadTypeOK
<1>2. ApicTypeOK
  BY DEF Init, ApicTypeOK
<1>3. SenderTypeOK
  <2>1. /\ requests \subseteq {"EVENT", "APICV_UPDATE"}
        /\ ipi \subseteq {"notify", "kick", "call"}
        /\ {td, apicv, inhibited, asleep} \subseteq BOOLEAN
        /\ toggler \in {"idle", "kick", "wait", "flip"}
    BY DEF Init
  <2>2. /\ toggles \in 0 .. MaxToggles
        /\ sender \in [Vectors -> {"idle", "on", "mode", "ipi", "irr", "request", "wake",
                                   "kick"}]
        /\ posts \in [Vectors -> 0 .. MaxPosts]
    BY RunAssumption DEF Init
  <2>3. QED
    BY <2>1, <2>2 DEF SenderTypeOK
<1>4. Highest({}) = 0 /\ rvi = 0 /\ ~Deliverable(irr)
  BY HighestBounds DEF Init, NoVector, Deliverable
<1>5. \A steps : Sends(steps) => "idle" \in steps
  BY DEF Sends, Init
<1>6. Places /\ Changes /\ ApicvAgrees /\ ServedIsReal
  BY DEF Init, Places, Inside, Blocking, Changes, ApicvAgrees, ServedIsReal
<1>7. TdApart
  BY <1>4, <1>5 DEF Init, TdApart
<1>8. Posting /\ Looking
  BY <1>4 DEF Init, Posting, Looking
<1>9. QED
  BY <1>1, <1>2, <1>3, <1>6, <1>7, <1>8 DEF RunInv, TypeOK

\* Nothing changes in a step that stutters.
LEMMA RunStutterKeepsInv == RunInv /\ UNCHANGED vars => RunInv'
<1> SUFFICES ASSUME RunInv, UNCHANGED vars PROVE RunInv'
  OBVIOUS
<1> USE DEF vars, vcpuVars, apicVars, apicvVars
<1>1. TypeOK'
  BY DEF RunInv, TypeOK, ThreadTypeOK, ApicTypeOK, SenderTypeOK
<1>2. Places' /\ Changes' /\ ApicvAgrees' /\ ServedIsReal'
  BY DEF RunInv, Places, Inside, Blocking, Changes, ApicvAgrees, ServedIsReal
<1>3. TdApart' /\ Posting'
  BY DEF RunInv, TdApart, Posting, Sends
<1>4. Looking'
  BY DEF RunInv, Looking, Sends, Deliverable
<1>5. QED
  BY <1>1, <1>2, <1>3, <1>4 DEF RunInv

\* RunInv is an invariant of one VCPU, a TD's or not, with any number of vectors,
\* deliveries and changes of the inhibition.
THEOREM RunInvariance == Spec => []RunInv
<1>1. RunInv /\ [Next]_vars => RunInv'
  <2> SUFFICES ASSUME RunInv, [Next]_vars PROVE RunInv'
    OBVIOUS
  <2>1. CASE \E v \in Vectors : Delivery(v)
    <3>1. PICK v \in Vectors : Delivery(v)
      BY <2>1
    <3>2. QED
      BY <3>1, DeliverKeepsInv, SetOnKeepsInv, ReadModeKeepsInv, NotifyKeepsInv,
         SetIrrKeepsInv, MakeRequestKeepsInv, WakeUpKeepsInv, KickKeepsInv DEF Delivery
  <2>2. CASE ToggleStart \/ Toggle
    BY <2>2, ToggleStartKeepsInv, ToggleKickKeepsInv, ToggleAckedKeepsInv,
       ToggleFlipKeepsInv DEF Toggle
  <2>3. CASE Thread
    BY <2>3, TopKeepsInv, UpdateApicvKeepsInv, NoEventKeepsInv, InjectNothingKeepsInv,
       InjectKeepsInv, EnterKeepsInv, ClearOnKeepsInv, TakePirKeepsInv, CancelKeepsInv,
       VmEntryKeepsInv, ExitedKeepsInv, HandleExitKeepsInv, BlockKeepsInv,
       CheckTdKeepsInv, CheckKeepsInv, WakeKeepsInv, UnblockKeepsInv DEF Thread
  <2>4. CASE Hardware \/ EventDelivered \/ EventFaults
    BY <2>4, GuestNotifiedKeepsInv, GuestInterruptedKeepsInv, GuestLeavesKeepsInv,
       GuestTakesKeepsInv, EventDeliveredKeepsInv, EventFaultsKeepsInv DEF Hardware
  <2>5. CASE Guest
    BY <2>5, GuestSetsIfKeepsInv, GuestEoiKeepsInv, GuestHltKeepsInv DEF Guest
  <2>6. CASE UNCHANGED vars
    BY <2>6, RunStutterKeepsInv
  <2>7. QED
    BY <2>1, <2>2, <2>3, <2>4, <2>5, <2>6 DEF Next
<1>2. QED
  BY <1>1, RunInvInit, PTL DEF Spec

\* Once every sender, IPI and request is done, the running guest has nothing posted that
\* the CPU does not see: RVI is the IRR's highest, or the window is open.
LEMMA InvNotices == RunInv => Noticed
<1> SUFFICES ASSUME RunInv, pc = "guest", ~OnTheWay, ipi = {}, requests = {}
             PROVE  /\ pir = {}
                    /\ apicv \/ td => rvi = Highest(irr)
                    /\ ~apicv /\ ~td /\ event = NoVector /\ Deliverable(irr) => window
  BY DEF Noticed
<1>1. \A steps : Sends(steps) => "idle" \in steps
  BY DEF Sends, OnTheWay
<1>2. mode # "EXITING" /\ pir = {}
  BY <1>1 DEF RunInv, Posting
<1>3. apicv \/ td => rvi = Highest(irr)
  BY <1>1 DEF RunInv, Looking, TdApart
<1>4. why = "none"
  BY DEF RunInv, Places
<1>5. ~apicv /\ ~td /\ Deliverable(irr) => window
  BY <1>1, <1>4 DEF RunInv, Looking
<1>6. QED
  BY <1>2, <1>3, <1>5

\* An interrupt of a VCPU is neither lost nor stranded where the CPU does not look: for
\* any set of vectors, the VCPU agrees with the VM's APICv in the guest, what the guest
\* could take is where the CPU looks, and what the APIC serves is what the guest serves.
THEOREM RunKeepsInterrupts == Spec => []InterruptsKept
<1>1. RunInv => InterruptsKept
  BY InvNotices DEF RunInv, InterruptsKept
<1>2. QED
  BY <1>1, RunInvariance, PTL

\* A VCPU does not sleep on an interrupt that would have kept it awake.
THEOREM RunLosesNoWakeup == Spec => []NoLostWakeup
<1>1. RunInv => NoLostWakeup
  <2> SUFFICES ASSUME RunInv, pc = "sleep", asleep, ~OnTheWay
               PROVE  /\ pir = {}
                      /\ ~td /\ iflag => ~Deliverable(irr)
                      /\ td /\ ~hltOff => ~Deliverable(irr)
    BY DEF NoLostWakeup
  <2>1. \A steps : Sends(steps) => "idle" \in steps
    BY DEF Sends, OnTheWay
  <2>2. pir = {}
    BY <2>1 DEF RunInv, Posting
  <2>3. QED
    BY <2>1, <2>2 DEF RunInv, Looking
<1>2. QED
  BY <1>1, RunInvariance, PTL

-----------------------------------------------------------------------------
(* The injection of events: the inductive invariant.                       *)

\* The event an entry injects: an exception before an NMI before an interrupt.
Chosen == IF excInjected THEN vector
          ELSE IF nmiInjected THEN "nmi" ELSE IF irqInjected THEN "irq" ELSE "none"

\* The VM-entry field follows the queues from check_and_inject_events to the entry.
EntryFollows ==
    /\ ipc \in {"requests", "reinject", "complete", "handle"} => entry = "none"
    /\ ipc = "new" => entry = IF excPending THEN "none" ELSE Chosen
    /\ ipc \in {"nmi", "irq", "gate"} => entry = Chosen /\ ~excPending
    /\ ipc \in {"new", "nmi", "irq"} => (canInject <=> ~NeedsReinjection)
    /\ ipc = "guest" /\ entry # "none" => entry = Chosen

\* What waits to be injected has been asked for.
EventAsked ==
    ipc \in {"requests", "handle"} /\ (NeedsReinjection \/ excPending) => "EVENT" \in irequests

\* An exit that tells of an IRET: NMIs are unblocked again, nothing was being delivered,
\* and it is one that IRETs have met.
IretTold ==
    ipc \in {"complete", "handle"} /\ exit.unblock =>
        /\ Vnmi /\ exit.vectoring = "none"
        /\ exit.reason \in {"ept"} \cup Faults
        /\ (IF exit.reason = "ept" THEN "ept" ELSE "exception") \in iretsMet

\* nmi_known_unmasked is right until an IRET meets an EPT violation.
MaskKnown ==
    /\ ~Vnmi => ~blocked
    /\ Vnmi /\ entry = "nmi" => ~knownUnmasked
    /\ Vnmi /\ "ept" \notin iretsMet =>
        /\ ~(knownUnmasked /\ blocked)
        /\ ipc = "complete" /\ exit.unblock => ~knownUnmasked

\* In an NMI handler NMIs are blocked, or the exit that unblocked them still says so.
HandlerBlocks ==
    Vnmi /\ iretsMet # {"ept", "exception"} /\ frames > 0 =>
        /\ frames = 1
        /\ ipc \in {"requests", "reinject", "new", "nmi", "irq", "gate"} =>
              blocked /\ ~nmiInjected
        /\ ipc = "guest" => blocked /\ entry # "nmi"
        /\ ipc = "complete" => exit.vectoring # "nmi" /\ (blocked \/ exit.unblock)
        /\ ipc = "handle" => ~nmiInjected /\ (blocked \/ (exit.unblock /\ exit.reason = "ept"))

InjectInv ==
    /\ InjectTypeOK /\ OneException /\ EntryFollows /\ EventAsked /\ IretTold
    /\ MaskKnown /\ HandlerBlocks /\ NmisAreReal

-----------------------------------------------------------------------------
(* Every step keeps InjectInv.                                             *)

\* An NMI that arrives is counted, and asked for.
LEMMA InjectNmiKeeps == ASSUME InjectInv, InjectNmi PROVE InjectInv'
<1>1. StageTypeOK'
  BY InjectionAssumption DEF InjectInv, StageTypeOK, InjectNmi, InjectTypeOK, queue, guest
<1>2. FlagsTypeOK'
  BY InjectionAssumption DEF InjectInv, FlagsTypeOK, InjectNmi, InjectTypeOK, eventVars,
     apic, queue, masks, guest
<1>3. CountsTypeOK'
  BY InjectionAssumption DEF InjectInv, CountsTypeOK, InjectNmi, InjectTypeOK,
     NmisAreReal, apic, queue, guest
<1>4. OneException'
  BY InjectionAssumption DEF InjectInv, OneException, InjectNmi, eventVars, masks, guest,
     queue
<1>5. EntryFollows'
  BY InjectionAssumption DEF InjectInv, EntryFollows, InjectNmi, Chosen, NeedsReinjection,
     queue
<1>6. EventAsked'
  BY InjectionAssumption DEF InjectInv, EventAsked, InjectNmi, NeedsReinjection, queue
<1>7. IretTold'
  BY InjectionAssumption DEF InjectInv, IretTold, InjectNmi, eventVars, guest
<1>8. MaskKnown'
  BY InjectionAssumption DEF InjectInv, MaskKnown, InjectNmi, masks, guest
<1>9. HandlerBlocks'
  BY InjectionAssumption DEF InjectInv, HandlerBlocks, InjectNmi, queue, masks, guest
<1>10. NmisAreReal'
  BY InjectionAssumption DEF InjectInv, NmisAreReal, InjectNmi, InFlight, InjectTypeOK,
     CountsTypeOK, queue, guest
<1>11. QED
  BY <1>1, <1>2, <1>3, <1>4, <1>5, <1>6, <1>7, <1>8, <1>9, <1>10 DEF InjectInv, InjectTypeOK

\* An interrupt that arrives in the IRR touches no queue.
LEMMA SendInterruptKeeps == ASSUME InjectInv, SendInterrupt PROVE InjectInv'
<1>1. StageTypeOK'
  BY InjectionAssumption DEF InjectInv, StageTypeOK, SendInterrupt, InjectTypeOK, queue,
     guest
<1>2. FlagsTypeOK'
  BY InjectionAssumption DEF InjectInv, FlagsTypeOK, SendInterrupt, InjectTypeOK,
     eventVars, apic, queue, masks, guest
<1>3. CountsTypeOK'
  BY InjectionAssumption DEF InjectInv, CountsTypeOK, SendInterrupt, InjectTypeOK,
     arrivals, queue, guest
<1>4. OneException'
  BY InjectionAssumption DEF InjectInv, OneException, SendInterrupt, eventVars, apic,
     masks, guest, queue
<1>5. EntryFollows'
  BY InjectionAssumption DEF InjectInv, EntryFollows, SendInterrupt, Chosen,
     NeedsReinjection, queue
<1>6. EventAsked'
  BY InjectionAssumption DEF InjectInv, EventAsked, SendInterrupt
<1>7. IretTold'
  BY InjectionAssumption DEF InjectInv, IretTold, SendInterrupt, eventVars, apic, guest
<1>8. MaskKnown'
  BY InjectionAssumption DEF InjectInv, MaskKnown, SendInterrupt, masks, guest
<1>9. HandlerBlocks'
  BY InjectionAssumption DEF InjectInv, HandlerBlocks, SendInterrupt, queue, masks, guest
<1>10. NmisAreReal'
  BY InjectionAssumption DEF InjectInv, NmisAreReal, SendInterrupt, InFlight, arrivals,
     queue, guest
<1>11. QED
  BY <1>1, <1>2, <1>3, <1>4, <1>5, <1>6, <1>7, <1>8, <1>9, <1>10 DEF InjectInv, InjectTypeOK

\* process_nmi moves the NMIs that arrived to those pending, two at most: EVENT is then
\* asked for.
LEMMA ProcessNmiKeeps == ASSUME InjectInv, ProcessNmi PROVE InjectInv'
<1>1. StageTypeOK'
  BY InjectionAssumption DEF InjectInv, StageTypeOK, ProcessNmi, InjectTypeOK, guest
<1>2. FlagsTypeOK'
  BY InjectionAssumption DEF InjectInv, FlagsTypeOK, ProcessNmi, InjectTypeOK, apic, guest
<1>3. CountsTypeOK'
  BY InjectionAssumption DEF InjectInv, CountsTypeOK, ProcessNmi, InjectTypeOK, NmiLimit,
     AtMost, apic, guest
<1>4. OneException'
  BY InjectionAssumption DEF InjectInv, OneException, ProcessNmi
<1>5. EntryFollows'
  BY InjectionAssumption DEF InjectInv, EntryFollows, ProcessNmi
<1>6. EventAsked'
  BY InjectionAssumption DEF InjectInv, EventAsked, ProcessNmi, NeedsReinjection
<1>7. IretTold'
  BY InjectionAssumption DEF InjectInv, IretTold, ProcessNmi
<1>8. MaskKnown'
  BY InjectionAssumption DEF InjectInv, MaskKnown, ProcessNmi, EntryFollows, guest
<1>9. HandlerBlocks'
  BY InjectionAssumption DEF InjectInv, HandlerBlocks, ProcessNmi, guest
<1>10. NmisAreReal'
  BY InjectionAssumption DEF InjectInv, NmisAreReal, ProcessNmi, InFlight, InjectTypeOK,
     CountsTypeOK, NmiLimit, AtMost, guest
<1>11. QED
  BY <1>1, <1>2, <1>3, <1>4, <1>5, <1>6, <1>7, <1>8, <1>9, <1>10 DEF InjectInv, InjectTypeOK

\* A triple fault ends the VCPU.
LEMMA TripleFaultKeeps == ASSUME InjectInv, TripleFault PROVE InjectInv'
<1>1. StageTypeOK'
  BY InjectionAssumption DEF InjectInv, StageTypeOK, TripleFault, InjectTypeOK, queue, guest
<1>2. FlagsTypeOK'
  BY InjectionAssumption DEF InjectInv, FlagsTypeOK, TripleFault, InjectTypeOK, eventVars,
     apic, queue, masks, guest
<1>3. CountsTypeOK'
  BY InjectionAssumption DEF InjectInv, CountsTypeOK, TripleFault, InjectTypeOK, apic,
     arrivals, queue, guest
<1>4. OneException'
  BY InjectionAssumption DEF InjectInv, OneException, TripleFault, eventVars, masks,
     guest, queue
<1>5. EntryFollows'
  BY InjectionAssumption DEF InjectInv, EntryFollows, TripleFault
<1>6. EventAsked'
  BY InjectionAssumption DEF InjectInv, EventAsked, TripleFault
<1>7. IretTold'
  BY InjectionAssumption DEF InjectInv, IretTold, TripleFault, eventVars
<1>8. MaskKnown'
  BY InjectionAssumption DEF InjectInv, MaskKnown, TripleFault, masks, guest
<1>9. HandlerBlocks'
  BY InjectionAssumption DEF InjectInv, HandlerBlocks, TripleFault, guest
<1>10. NmisAreReal'
  BY InjectionAssumption DEF InjectInv, NmisAreReal, TripleFault, InFlight, arrivals,
     queue, guest
<1>11. QED
  BY <1>1, <1>2, <1>3, <1>4, <1>5, <1>6, <1>7, <1>8, <1>9, <1>10 DEF InjectInv, InjectTypeOK

\* The injection starts with nothing in the VM-entry field.
LEMMA CheckEventKeeps == ASSUME InjectInv, CheckEvent PROVE InjectInv'
<1>1. StageTypeOK'
  BY InjectionAssumption DEF InjectInv, StageTypeOK, CheckEvent, InjectTypeOK, queue, guest
<1>2. FlagsTypeOK'
  BY InjectionAssumption DEF InjectInv, FlagsTypeOK, CheckEvent, InjectTypeOK, eventVars,
     apic, queue, masks, guest
<1>3. CountsTypeOK'
  BY InjectionAssumption DEF InjectInv, CountsTypeOK, CheckEvent, InjectTypeOK, apic,
     arrivals, queue, guest
<1>4. OneException'
  BY InjectionAssumption DEF InjectInv, OneException, CheckEvent, eventVars, masks, guest,
     queue
<1>5. EntryFollows'
  BY DEF InjectInv, EntryFollows, EventAsked, Chosen, NeedsReinjection, OneException,
     InjectTypeOK, StageTypeOK, FlagsTypeOK, CheckEvent, queue
<1>6. EventAsked'
  BY InjectionAssumption DEF InjectInv, EventAsked, CheckEvent
<1>7. IretTold'
  BY InjectionAssumption DEF InjectInv, IretTold, CheckEvent, eventVars
<1>8. MaskKnown'
  BY InjectionAssumption DEF InjectInv, MaskKnown, CheckEvent, masks, guest
<1>9. HandlerBlocks'
  BY InjectionAssumption DEF InjectInv, HandlerBlocks, CheckEvent, queue, masks, guest
<1>10. NmisAreReal'
  BY InjectionAssumption DEF InjectInv, NmisAreReal, CheckEvent, InFlight, arrivals,
     queue, guest
<1>11. QED
  BY <1>1, <1>2, <1>3, <1>4, <1>5, <1>6, <1>7, <1>8, <1>9, <1>10 DEF InjectInv, InjectTypeOK

\* What an earlier entry did not deliver is written first: the field is what is queued.
LEMMA ReinjectKeeps == ASSUME InjectInv, Reinject PROVE InjectInv'
<1>1. StageTypeOK'
  BY InjectionAssumption DEF InjectInv, StageTypeOK, Reinject, InjectTypeOK, eventVars,
     apic, arrivals, queue, masks, guest, InjectsNmi
<1>2. FlagsTypeOK'
  BY InjectionAssumption, ZenonT(60) DEF InjectInv, FlagsTypeOK, Reinject, InjectTypeOK,
     InjectsNmi,
     eventVars, arrivals, queue, masks, guest, apic
<1>3. CountsTypeOK'
  BY InjectionAssumption DEF InjectInv, CountsTypeOK, Reinject, InjectTypeOK, apic,
     arrivals, queue, guest
<1>4. OneException'
  BY InjectionAssumption DEF InjectInv, OneException, Reinject, queue
<1>5. EntryFollows'
  BY InjectionAssumption DEF InjectInv, EntryFollows, Reinject, Chosen, NeedsReinjection,
     OneException, InjectsNmi, queue
<1>6. EventAsked'
  BY InjectionAssumption DEF InjectInv, EventAsked, Reinject
<1>7. IretTold'
  BY InjectionAssumption DEF InjectInv, IretTold, Reinject
<1>8. MaskKnown'
  BY InjectionAssumption DEF InjectInv, MaskKnown, Reinject, InjectTypeOK, StageTypeOK,
     Exceptions, InjectsNmi, guest
<1>9. HandlerBlocks'
  BY InjectionAssumption DEF InjectInv, HandlerBlocks, Reinject, queue, guest
<1>10. NmisAreReal'
  BY InjectionAssumption DEF InjectInv, NmisAreReal, Reinject, InFlight, arrivals, queue,
     guest
<1>11. QED
  BY <1>1, <1>2, <1>3, <1>4, <1>5, <1>6, <1>7, <1>8, <1>9, <1>10 DEF InjectInv, InjectTypeOK

\* A pending exception becomes an injected one only if nothing else is in the field.
LEMMA InjectExceptionKeeps == ASSUME InjectInv, InjectException PROVE InjectInv'
<1>1. StageTypeOK'
  BY InjectionAssumption DEF InjectInv, StageTypeOK, InjectException, InjectTypeOK, guest
<1>2. FlagsTypeOK'
  BY InjectionAssumption DEF InjectInv, FlagsTypeOK, InjectException, InjectTypeOK,
     eventVars, apic, masks, guest
<1>3. CountsTypeOK'
  BY InjectionAssumption DEF InjectInv, CountsTypeOK, InjectException, InjectTypeOK, apic,
     arrivals, guest
<1>4. OneException'
  BY InjectionAssumption DEF InjectInv, OneException, InjectException, eventVars
<1>5. EntryFollows'
  BY InjectionAssumption DEF InjectInv, EntryFollows, InjectException, Chosen,
     NeedsReinjection
<1>6. EventAsked'
  BY InjectionAssumption DEF InjectInv, EventAsked, InjectException
<1>7. IretTold'
  BY InjectionAssumption DEF InjectInv, IretTold, InjectException, eventVars
<1>8. MaskKnown'
  BY InjectionAssumption DEF InjectInv, MaskKnown, InjectException, InjectTypeOK,
     StageTypeOK, Exceptions, masks, guest
<1>9. HandlerBlocks'
  BY InjectionAssumption DEF InjectInv, HandlerBlocks, InjectException, masks, guest
<1>10. NmisAreReal'
  BY InjectionAssumption DEF InjectInv, NmisAreReal, InjectException, InFlight, arrivals,
     guest
<1>11. QED
  BY <1>1, <1>2, <1>3, <1>4, <1>5, <1>6, <1>7, <1>8, <1>9, <1>10 DEF InjectInv, InjectTypeOK

\* A pending NMI is written only where NMIs are not blocked, so outside a handler.
LEMMA InjectPendingNmiKeeps == ASSUME InjectInv, InjectPendingNmi PROVE InjectInv'
<1>1. StageTypeOK'
  <2>1. ipc' \in {"irq", "gate"} /\ entry' \in {entry, "nmi"}
    BY DEF InjectPendingNmi, InjectsNmi
  <2>2. windows' \subseteq {"irq", "nmi"}
    BY DEF InjectInv, InjectPendingNmi, InjectTypeOK, StageTypeOK, NmiWindow
  <2>3. QED
    BY <2>1, <2>2 DEF InjectInv, InjectPendingNmi, InjectTypeOK, StageTypeOK, guest
<1>2. FlagsTypeOK'
  BY InjectionAssumption DEF InjectInv, FlagsTypeOK, InjectPendingNmi, InjectTypeOK,
     InjectsNmi, apic, guest
<1>3. CountsTypeOK'
  BY InjectionAssumption DEF InjectInv, CountsTypeOK, InjectPendingNmi, InjectTypeOK,
     apic, arrivals, guest
<1>4. OneException'
  BY InjectionAssumption DEF InjectInv, OneException, InjectPendingNmi
<1>5. EntryFollows'
  BY InjectionAssumption DEF InjectInv, EntryFollows, InjectPendingNmi, Chosen,
     NeedsReinjection, InjectsNmi, Busy
<1>6. EventAsked'
  BY InjectionAssumption DEF InjectInv, EventAsked, InjectPendingNmi
<1>7. IretTold'
  BY InjectionAssumption DEF InjectInv, IretTold, InjectPendingNmi
<1>8. MaskKnown'
  BY InjectionAssumption DEF InjectInv, MaskKnown, InjectPendingNmi, InjectsNmi, guest
<1>9. HandlerBlocks'
  BY InjectionAssumption DEF InjectInv, HandlerBlocks, InjectPendingNmi, NmiBlocked, guest
<1>10. NmisAreReal'
  BY InjectionAssumption DEF InjectInv, NmisAreReal, InjectPendingNmi, InFlight,
     InjectTypeOK, CountsTypeOK, arrivals, guest
<1>11. QED
  BY <1>1, <1>2, <1>3, <1>4, <1>5, <1>6, <1>7, <1>8, <1>9, <1>10 DEF InjectInv, InjectTypeOK

\* An interrupt is written last, after everything else was refused.
LEMMA InjectInterruptKeeps == ASSUME InjectInv, InjectInterrupt PROVE InjectInv'
<1>1. StageTypeOK'
  <2>1. ipc' = "gate" /\ entry' \in {entry, "irq"}
    BY DEF InjectInterrupt
  <2>2. windows' \subseteq {"irq", "nmi"}
    BY DEF InjectInv, InjectInterrupt, InjectTypeOK, StageTypeOK
  <2>3. QED
    BY <2>1, <2>2 DEF InjectInv, InjectInterrupt, InjectTypeOK, StageTypeOK, guest
<1>2. FlagsTypeOK'
  BY InjectionAssumption, ZenonT(60) DEF InjectInv, FlagsTypeOK, InjectInterrupt, InjectTypeOK,
     masks,
     guest
<1>3. CountsTypeOK'
  BY InjectionAssumption DEF InjectInv, CountsTypeOK, InjectInterrupt, InjectTypeOK,
     arrivals, guest
<1>4. OneException'
  BY InjectionAssumption DEF InjectInv, OneException, InjectInterrupt
<1>5. EntryFollows'
  BY InjectionAssumption DEF InjectInv, EntryFollows, InjectInterrupt, Chosen,
     NeedsReinjection, Busy
<1>6. EventAsked'
  BY InjectionAssumption DEF InjectInv, EventAsked, InjectInterrupt
<1>7. IretTold'
  BY InjectionAssumption DEF InjectInv, IretTold, InjectInterrupt
<1>8. MaskKnown'
  BY InjectionAssumption DEF InjectInv, MaskKnown, InjectInterrupt, masks, guest
<1>9. HandlerBlocks'
  BY InjectionAssumption DEF InjectInv, HandlerBlocks, InjectInterrupt, masks, guest
<1>10. NmisAreReal'
  BY InjectionAssumption DEF InjectInv, NmisAreReal, InjectInterrupt, InFlight, arrivals,
     guest
<1>11. QED
  BY <1>1, <1>2, <1>3, <1>4, <1>5, <1>6, <1>7, <1>8, <1>9, <1>10 DEF InjectInv, InjectTypeOK

\* The entry takes what the field says.
LEMMA EnterGuestKeeps == ASSUME InjectInv, EnterGuest PROVE InjectInv'
<1>1. StageTypeOK'
  BY InjectionAssumption DEF InjectInv, StageTypeOK, EnterGuest, InjectTypeOK, queue, guest
<1>2. FlagsTypeOK'
  BY InjectionAssumption DEF InjectInv, FlagsTypeOK, EnterGuest, InjectTypeOK, eventVars,
     apic, queue, masks, guest
<1>3. CountsTypeOK'
  BY InjectionAssumption DEF InjectInv, CountsTypeOK, EnterGuest, InjectTypeOK, apic,
     arrivals, queue, guest
<1>4. OneException'
  BY InjectionAssumption DEF InjectInv, OneException, EnterGuest, eventVars, masks, guest,
     queue
<1>5. EntryFollows'
  BY InjectionAssumption DEF InjectInv, EntryFollows, EnterGuest, Chosen, queue
<1>6. EventAsked'
  BY InjectionAssumption DEF InjectInv, EventAsked, EnterGuest
<1>7. IretTold'
  BY InjectionAssumption DEF InjectInv, IretTold, EnterGuest, eventVars
<1>8. MaskKnown'
  BY InjectionAssumption DEF InjectInv, MaskKnown, EnterGuest, masks, guest
<1>9. HandlerBlocks'
  BY InjectionAssumption DEF InjectInv, HandlerBlocks, EnterGuest, EntryFollows,
     InjectTypeOK, StageTypeOK, FlagsTypeOK, CountsTypeOK, Exceptions, eventVars, apic,
     arrivals, queue, masks, guest, Chosen
<1>10. NmisAreReal'
  BY InjectionAssumption DEF InjectInv, NmisAreReal, EnterGuest, InFlight, InjectTypeOK,
     StageTypeOK, CountsTypeOK, EntryFollows, Chosen, Exceptions, arrivals, queue, guest
<1>11. QED
  BY <1>1, <1>2, <1>3, <1>4, <1>5, <1>6, <1>7, <1>8, <1>9, <1>10 DEF InjectInv, InjectTypeOK

\* An entry given up puts what the field says back, and asks for the event again.
LEMMA CancelInjectionKeeps == ASSUME InjectInv, CancelInjection PROVE InjectInv'
<1>1. StageTypeOK'
  BY InjectionAssumption DEF InjectInv, StageTypeOK, CancelInjection, InjectTypeOK,
     Unmasked, eventVars, apic, arrivals, queue, masks, guest, Requeues
<1>2. FlagsTypeOK'
  <2> DEFINE isNmi == entry = "nmi"
             isException == entry \in Exceptions
             isIrq == entry = "irq"
  <2>1. /\ nmiInjected' = isNmi /\ excInjected' = isException
        /\ irqInjected' = isIrq /\ excPending' = FALSE
    BY DEF CancelInjection, Requeues
  <2>2. {isNmi, isException, isIrq} \subseteq BOOLEAN
    OBVIOUS
  <2> HIDE DEF isNmi, isException, isIrq
  <2>3. {blocked', knownUnmasked', softBlocked'} \subseteq BOOLEAN
    BY DEF CancelInjection, Unmasked
  <2>4. QED
    BY <2>1, <2>2, <2>3 DEF InjectInv, CancelInjection, InjectTypeOK, FlagsTypeOK, apic,
       guest
<1>3. CountsTypeOK'
  BY InjectionAssumption DEF InjectInv, CountsTypeOK, CancelInjection, InjectTypeOK, apic,
     arrivals, guest
<1>4. OneException'
  BY InjectionAssumption DEF InjectInv, OneException, CancelInjection, Requeues
<1>5. EntryFollows'
  BY InjectionAssumption DEF InjectInv, EntryFollows, CancelInjection
<1>6. EventAsked'
  BY InjectionAssumption DEF InjectInv, EventAsked, CancelInjection, NeedsReinjection,
     Exceptions, Requeues
<1>7. IretTold'
  BY InjectionAssumption DEF InjectInv, IretTold, CancelInjection
<1>8. MaskKnown'
  BY InjectionAssumption DEF InjectInv, MaskKnown, CancelInjection, Unmasked, guest
<1>9. HandlerBlocks'
  BY InjectionAssumption DEF InjectInv, HandlerBlocks, CancelInjection, EntryFollows,
     InjectTypeOK, StageTypeOK, FlagsTypeOK, CountsTypeOK, Exceptions, Requeues, Unmasked,
     eventVars, apic, arrivals, queue, masks, guest, Chosen
<1>10. NmisAreReal'
  BY InjectionAssumption DEF InjectInv, NmisAreReal, CancelInjection, InFlight,
     InjectTypeOK, StageTypeOK, CountsTypeOK, EntryFollows, Chosen, Exceptions,
     NeedsReinjection, Requeues, Unmasked, eventVars, apic, arrivals, queue, masks, guest,
     FlagsTypeOK
<1>11. QED
  BY <1>1, <1>2, <1>3, <1>4, <1>5, <1>6, <1>7, <1>8, <1>9, <1>10 DEF InjectInv, InjectTypeOK

\* After an exit the event that was being delivered is queued again, and what is known of
\* the NMI mask is recovered.
LEMMA CompleteKeeps == ASSUME InjectInv, Complete PROVE InjectInv'
<1>1. StageTypeOK'
  BY InjectionAssumption DEF InjectInv, StageTypeOK, Complete, InjectTypeOK, Unmasked,
     Recovered, IretSeen, eventVars, apic, arrivals, queue, masks, guest, Requeues
<1>2. FlagsTypeOK'
  <2> DEFINE isNmi == exit.vectoring = "nmi"
             isException == exit.vectoring \in Exceptions
             isIrq == exit.vectoring = "irq"
  <2>1. /\ nmiInjected' = isNmi /\ excInjected' = isException
        /\ irqInjected' = isIrq /\ excPending' = FALSE
    BY DEF Complete, Requeues
  <2>2. {isNmi, isException, isIrq} \subseteq BOOLEAN
    OBVIOUS
  <2> HIDE DEF isNmi, isException, isIrq
  <2>3. {blocked', knownUnmasked', softBlocked'} \subseteq BOOLEAN
    BY DEF Complete, Unmasked
  <2>4. QED
    BY <2>1, <2>2, <2>3 DEF InjectInv, Complete, InjectTypeOK, FlagsTypeOK, apic, guest
<1>3. CountsTypeOK'
  BY InjectionAssumption DEF InjectInv, CountsTypeOK, Complete, InjectTypeOK, apic,
     arrivals, guest
<1>4. OneException'
  BY InjectionAssumption DEF InjectInv, OneException, Complete, Requeues
<1>5. EntryFollows'
  BY InjectionAssumption DEF InjectInv, EntryFollows, Complete
<1>6. EventAsked'
  BY InjectionAssumption DEF InjectInv, EventAsked, Complete, NeedsReinjection,
     Exceptions, Requeues
<1>7. IretTold'
  BY InjectionAssumption DEF InjectInv, IretTold, Complete, guest
<1>8. MaskKnown'
  BY InjectionAssumption DEF InjectInv, MaskKnown, Complete, EntryFollows, Unmasked,
     Recovered, guest
<1>9. HandlerBlocks'
  BY InjectionAssumption DEF InjectInv, HandlerBlocks, Complete, MaskKnown, IretTold,
     InjectTypeOK, StageTypeOK, Exceptions, Requeues, Unmasked, Recovered, IretSeen, guest
<1>10. NmisAreReal'
  BY InjectionAssumption DEF InjectInv, NmisAreReal, Complete, InFlight, Requeues,
     arrivals, guest
<1>11. QED
  BY <1>1, <1>2, <1>3, <1>4, <1>5, <1>6, <1>7, <1>8, <1>9, <1>10 DEF InjectInv, InjectTypeOK

\* An exit for a window or the host's interrupt asks for the event that waited.
LEMMA HandleOtherKeeps == ASSUME InjectInv, HandleOther PROVE InjectInv'
<1>1. StageTypeOK'
  BY InjectionAssumption DEF InjectInv, StageTypeOK, HandleOther, InjectTypeOK, queue, guest
<1>2. FlagsTypeOK'
  BY InjectionAssumption DEF InjectInv, FlagsTypeOK, HandleOther, InjectTypeOK,
     SoftUnblocks, apic, queue, guest
<1>3. CountsTypeOK'
  BY InjectionAssumption DEF InjectInv, CountsTypeOK, HandleOther, InjectTypeOK, apic,
     arrivals, queue, guest
<1>4. OneException'
  BY InjectionAssumption DEF InjectInv, OneException, HandleOther, queue
<1>5. EntryFollows'
  BY InjectionAssumption DEF InjectInv, EntryFollows, HandleOther
<1>6. EventAsked'
  BY InjectionAssumption DEF InjectInv, EventAsked, HandleOther, NeedsReinjection, queue
<1>7. IretTold'
  BY InjectionAssumption DEF InjectInv, IretTold, HandleOther
<1>8. MaskKnown'
  BY InjectionAssumption DEF InjectInv, MaskKnown, HandleOther, guest
<1>9. HandlerBlocks'
  BY InjectionAssumption DEF InjectInv, HandlerBlocks, HandleOther, queue, guest
<1>10. NmisAreReal'
  BY InjectionAssumption DEF InjectInv, NmisAreReal, HandleOther, InFlight, arrivals,
     queue, guest
<1>11. QED
  BY <1>1, <1>2, <1>3, <1>4, <1>5, <1>6, <1>7, <1>8, <1>9, <1>10 DEF InjectInv, InjectTypeOK

\* An IRET that met an EPT violation is undone: NMIs are blocked again.
LEMMA HandleEptKeeps == ASSUME InjectInv, HandleEpt PROVE InjectInv'
<1>1. StageTypeOK'
  BY InjectionAssumption DEF InjectInv, StageTypeOK, HandleEpt, InjectTypeOK, queue, guest
<1>2. FlagsTypeOK'
  BY InjectionAssumption, ZenonT(60) DEF InjectInv, FlagsTypeOK, HandleEpt, InjectTypeOK,
     SoftUnblocks, InterruptBlocked, apic, arrivals, queue, masks, guest
<1>3. CountsTypeOK'
  BY InjectionAssumption DEF InjectInv, CountsTypeOK, HandleEpt, InjectTypeOK, apic,
     arrivals, queue, guest
<1>4. OneException'
  BY InjectionAssumption DEF InjectInv, OneException, HandleEpt, queue
<1>5. EntryFollows'
  BY InjectionAssumption DEF InjectInv, EntryFollows, HandleEpt
<1>6. EventAsked'
  BY InjectionAssumption DEF InjectInv, EventAsked, HandleEpt, NeedsReinjection, queue
<1>7. IretTold'
  BY InjectionAssumption DEF InjectInv, IretTold, HandleEpt
<1>8. MaskKnown'
  BY InjectionAssumption DEF InjectInv, MaskKnown, HandleEpt, IretTold, guest
<1>9. HandlerBlocks'
  BY InjectionAssumption DEF InjectInv, HandlerBlocks, HandleEpt, IretTold, queue, guest
<1>10. NmisAreReal'
  BY InjectionAssumption DEF InjectInv, NmisAreReal, HandleEpt, InFlight, arrivals, queue,
     guest
<1>11. QED
  BY <1>1, <1>2, <1>3, <1>4, <1>5, <1>6, <1>7, <1>8, <1>9, <1>10 DEF InjectInv, InjectTypeOK

\* An exception of the guest is queued, alone or merged with the one before.
LEMMA HandleExceptionKeeps == ASSUME InjectInv, HandleException PROVE InjectInv'
<1>1. StageTypeOK'
  BY InjectionAssumption DEF InjectInv, StageTypeOK, HandleException, Exceptions,
     InjectTypeOK, QueueException, guest
<1>2. FlagsTypeOK'
  BY InjectionAssumption, ZenonT(60) DEF InjectInv, FlagsTypeOK, HandleException, InjectTypeOK,
     SoftUnblocks, DoubleFault, Contributory, eventVars, apic, arrivals, queue, masks,
     guest, QueueException
<1>3. CountsTypeOK'
  BY InjectionAssumption DEF InjectInv, CountsTypeOK, HandleException, InjectTypeOK, apic,
     arrivals, guest
<1>4. OneException'
  BY InjectionAssumption DEF InjectInv, OneException, HandleException, QueueException
<1>5. EntryFollows'
  BY InjectionAssumption DEF InjectInv, EntryFollows, HandleException
<1>6. EventAsked'
  BY InjectionAssumption DEF InjectInv, EventAsked, HandleException, NeedsReinjection,
     QueueException
<1>7. IretTold'
  BY InjectionAssumption DEF InjectInv, IretTold, HandleException
<1>8. MaskKnown'
  BY InjectionAssumption DEF InjectInv, MaskKnown, HandleException, guest
<1>9. HandlerBlocks'
  BY InjectionAssumption DEF InjectInv, HandlerBlocks, HandleException, Exceptions, guest
<1>10. NmisAreReal'
  BY InjectionAssumption DEF InjectInv, NmisAreReal, HandleException, InFlight, arrivals,
     guest
<1>11. QED
  BY <1>1, <1>2, <1>3, <1>4, <1>5, <1>6, <1>7, <1>8, <1>9, <1>10 DEF InjectInv, InjectTypeOK

\* The delivery succeeds: of an NMI, the handler starts and NMIs are blocked.
LEMMA DeliveredKeeps == ASSUME InjectInv, Delivered PROVE InjectInv'
<1>1. StageTypeOK'
  BY InjectionAssumption DEF InjectInv, StageTypeOK, Delivered, InjectTypeOK, queue
<1>2. FlagsTypeOK'
  BY InjectionAssumption, ZenonT(60) DEF InjectInv, FlagsTypeOK, Delivered, InjectTypeOK,
     eventVars,
     apic, queue, masks, guest
<1>3. CountsTypeOK'
  BY InjectionAssumption DEF InjectInv, CountsTypeOK, Delivered, InjectTypeOK,
     NmisAreReal, InFlight, apic, arrivals, queue
<1>4. OneException'
  BY InjectionAssumption DEF InjectInv, OneException, Delivered, eventVars, masks, guest,
     queue
<1>5. EntryFollows'
  BY InjectionAssumption DEF InjectInv, EntryFollows, Delivered
<1>6. EventAsked'
  BY InjectionAssumption DEF InjectInv, EventAsked, Delivered
<1>7. IretTold'
  BY InjectionAssumption DEF InjectInv, IretTold, Delivered, eventVars
<1>8. MaskKnown'
  BY InjectionAssumption DEF InjectInv, MaskKnown, Delivered
<1>9. HandlerBlocks'
  BY InjectionAssumption DEF InjectInv, HandlerBlocks, Delivered, EntryFollows,
     InjectTypeOK, StageTypeOK, FlagsTypeOK, CountsTypeOK, Exceptions, eventVars, apic,
     arrivals, queue, masks, guest, Chosen
<1>10. NmisAreReal'
  BY InjectionAssumption DEF InjectInv, NmisAreReal, Delivered, InFlight, InjectTypeOK,
     CountsTypeOK, arrivals, queue
<1>11. QED
  BY <1>1, <1>2, <1>3, <1>4, <1>5, <1>6, <1>7, <1>8, <1>9, <1>10 DEF InjectInv, InjectTypeOK

\* An exit asked for before the entry comes once nothing is being delivered.
LEMMA ForcedExitKeeps == ASSUME InjectInv, ForcedExit PROVE InjectInv'
<1>1. StageTypeOK'
  <2>1. PICK reason \in {"preempt", "nmiWindow", "irqWindow"} :
           ExitsFor(reason, "none", FALSE)
    BY DEF ForcedExit
  <2>2. ipc' = "complete" /\ exit' \in Exits
    BY <2>1 DEF ExitsFor, Exits
  <2>3. QED
    BY <2>2 DEF InjectInv, ForcedExit, InjectTypeOK, StageTypeOK, guest, queue
<1>2. FlagsTypeOK'
  BY InjectionAssumption DEF InjectInv, FlagsTypeOK, ForcedExit, InjectTypeOK, arrivals,
     queue, masks, guest, apic
<1>3. CountsTypeOK'
  BY InjectionAssumption DEF InjectInv, CountsTypeOK, ForcedExit, InjectTypeOK, apic,
     arrivals, queue, guest
<1>4. OneException'
  BY InjectionAssumption DEF InjectInv, OneException, ForcedExit, queue
<1>5. EntryFollows'
  BY InjectionAssumption DEF InjectInv, EntryFollows, ForcedExit, ExitsFor
<1>6. EventAsked'
  BY InjectionAssumption DEF InjectInv, EventAsked, ForcedExit, ExitsFor
<1>7. IretTold'
  BY InjectionAssumption DEF InjectInv, IretTold, ForcedExit, ExitsFor, eventVars
<1>8. MaskKnown'
  BY InjectionAssumption DEF InjectInv, MaskKnown, ForcedExit, ExitsFor, masks, guest
<1>9. HandlerBlocks'
  BY InjectionAssumption DEF InjectInv, HandlerBlocks, ForcedExit, ExitsFor, masks, guest
<1>10. NmisAreReal'
  BY InjectionAssumption DEF InjectInv, NmisAreReal, ForcedExit, InFlight, ExitsFor,
     arrivals, queue, guest
<1>11. QED
  BY <1>1, <1>2, <1>3, <1>4, <1>5, <1>6, <1>7, <1>8, <1>9, <1>10 DEF InjectInv, InjectTypeOK

\* The host's interrupt or an open window makes the guest exit between instructions.
LEMMA HostExitKeeps == ASSUME InjectInv, HostExit PROVE InjectInv'
<1>1. StageTypeOK'
  BY InjectionAssumption DEF InjectInv, StageTypeOK, HostExit, Exits, InjectTypeOK,
     eventVars, apic, arrivals, queue, masks, guest, ExitsFor
<1>2. FlagsTypeOK'
  BY InjectionAssumption DEF InjectInv, FlagsTypeOK, HostExit, InjectTypeOK, arrivals,
     queue, masks, guest, apic
<1>3. CountsTypeOK'
  BY InjectionAssumption DEF InjectInv, CountsTypeOK, HostExit, InjectTypeOK, apic,
     arrivals, queue, guest
<1>4. OneException'
  BY InjectionAssumption DEF InjectInv, OneException, HostExit, queue
<1>5. EntryFollows'
  BY InjectionAssumption DEF InjectInv, EntryFollows, HostExit, ExitsFor
<1>6. EventAsked'
  BY InjectionAssumption DEF InjectInv, EventAsked, HostExit, ExitsFor
<1>7. IretTold'
  BY InjectionAssumption DEF InjectInv, IretTold, HostExit, ExitsFor, eventVars
<1>8. MaskKnown'
  BY InjectionAssumption DEF InjectInv, MaskKnown, HostExit, ExitsFor, masks, guest
<1>9. HandlerBlocks'
  BY InjectionAssumption DEF InjectInv, HandlerBlocks, HostExit, ExitsFor, masks, guest
<1>10. NmisAreReal'
  BY InjectionAssumption DEF InjectInv, NmisAreReal, HostExit, InFlight, ExitsFor,
     arrivals, queue, guest
<1>11. QED
  BY <1>1, <1>2, <1>3, <1>4, <1>5, <1>6, <1>7, <1>8, <1>9, <1>10 DEF InjectInv, InjectTypeOK

\* An instruction of the guest changes its interrupt flag and shadow only.
LEMMA InstructionKeeps == ASSUME InjectInv, Instruction PROVE InjectInv'
<1>1. StageTypeOK'
  BY InjectionAssumption DEF InjectInv, StageTypeOK, Instruction, InjectTypeOK, queue
<1>2. FlagsTypeOK'
  BY InjectionAssumption DEF InjectInv, FlagsTypeOK, Instruction, InjectTypeOK, Sti, Cli,
     GuestRuns, eventVars, apic, arrivals, queue, masks, guest, Retire
<1>3. CountsTypeOK'
  BY InjectionAssumption DEF InjectInv, CountsTypeOK, Instruction, InjectTypeOK, Sti, Cli,
     Retire, apic, arrivals, queue
<1>4. OneException'
  BY InjectionAssumption DEF InjectInv, OneException, Instruction, queue
<1>5. EntryFollows'
  BY InjectionAssumption DEF InjectInv, EntryFollows, Instruction, Sti, Cli, Retire,
     GuestRuns
<1>6. EventAsked'
  BY InjectionAssumption DEF InjectInv, EventAsked, Instruction, Sti, Cli, Retire, GuestRuns
<1>7. IretTold'
  BY InjectionAssumption DEF InjectInv, IretTold, Instruction
<1>8. MaskKnown'
  BY InjectionAssumption DEF InjectInv, MaskKnown, Instruction, masks
<1>9. HandlerBlocks'
  BY InjectionAssumption DEF InjectInv, HandlerBlocks, Instruction, Sti, Cli, Retire,
     queue, masks
<1>10. NmisAreReal'
  BY InjectionAssumption DEF InjectInv, NmisAreReal, Instruction, InFlight, Sti, Cli,
     Retire, arrivals, queue
<1>11. QED
  BY <1>1, <1>2, <1>3, <1>4, <1>5, <1>6, <1>7, <1>8, <1>9, <1>10 DEF InjectInv, InjectTypeOK

\* An IRET that succeeds ends a handler and unblocks NMIs.
LEMMA IretKeeps == ASSUME InjectInv, Iret PROVE InjectInv'
<1>1. StageTypeOK'
  BY InjectionAssumption DEF InjectInv, StageTypeOK, Iret, InjectTypeOK, queue
<1>2. FlagsTypeOK'
  BY InjectionAssumption DEF InjectInv, FlagsTypeOK, Iret, InjectTypeOK, arrivals, queue,
     masks, guest, apic
<1>3. CountsTypeOK'
  BY InjectionAssumption DEF InjectInv, CountsTypeOK, Iret, InjectTypeOK, apic, arrivals,
     queue
<1>4. OneException'
  BY InjectionAssumption DEF InjectInv, OneException, Iret, queue
<1>5. EntryFollows'
  BY InjectionAssumption DEF InjectInv, EntryFollows, Iret, GuestRuns
<1>6. EventAsked'
  BY InjectionAssumption DEF InjectInv, EventAsked, Iret, GuestRuns
<1>7. IretTold'
  BY InjectionAssumption DEF InjectInv, IretTold, Iret
<1>8. MaskKnown'
  BY InjectionAssumption DEF InjectInv, MaskKnown, Iret
<1>9. HandlerBlocks'
  BY InjectionAssumption DEF InjectInv, HandlerBlocks, Iret
<1>10. NmisAreReal'
  BY InjectionAssumption DEF InjectInv, NmisAreReal, Iret, InjectTypeOK, CountsTypeOK,
     arrivals, queue
<1>11. QED
  BY <1>1, <1>2, <1>3, <1>4, <1>5, <1>6, <1>7, <1>8, <1>9, <1>10 DEF InjectInv, InjectTypeOK

\* An IRET that faults has unblocked NMIs already: the exit says so.
LEMMA IretFaultsKeeps == ASSUME InjectInv, IretFaults PROVE InjectInv'
<1>1. StageTypeOK'
  <2>1. PICK kind \in IretExits, reason \in {"ept"} \cup Faults :
           IretFaultsWith(kind, reason)
    BY DEF IretFaults, IretFaultsWith
  <2>2. (Vnmi /\ blocked) \in BOOLEAN
    OBVIOUS
  <2>3. reason \in {"ept"} \cup Exceptions
    BY InjectionAssumption DEF Exceptions
  <2>4. ipc' = "complete" /\ exit' \in Exits
    <3> DEFINE unblock == Vnmi /\ blocked
    <3>1. exit' = [reason |-> reason, vectoring |-> "none", unblock |-> unblock]
          /\ ipc' = "complete"
      BY <2>1 DEF IretFaultsWith, ExitsFor
    <3> HIDE DEF unblock
    <3>2. QED
      BY <2>2, <2>3, <3>1 DEF Exits, unblock
  <2>5. iretsMet' \subseteq IretExits
    BY <2>1 DEF InjectInv, InjectTypeOK, StageTypeOK, IretFaultsWith
  <2>6. QED
    BY <2>1, <2>4, <2>5 DEF InjectInv, InjectTypeOK, StageTypeOK, IretFaultsWith, queue
<1>2. FlagsTypeOK'
  BY InjectionAssumption DEF InjectInv, FlagsTypeOK, IretFaults, InjectTypeOK,
     IretFaultsWith, apic, queue
<1>3. CountsTypeOK'
  BY InjectionAssumption DEF InjectInv, CountsTypeOK, IretFaults, InjectTypeOK,
     IretFaultsWith, apic, arrivals, queue
<1>4. OneException'
  BY InjectionAssumption DEF InjectInv, OneException, IretFaults, IretFaultsWith, queue
<1>5. EntryFollows'
  BY InjectionAssumption DEF InjectInv, EntryFollows, IretFaults, IretFaultsWith,
     GuestRuns, ExitsFor
<1>6. EventAsked'
  BY InjectionAssumption DEF InjectInv, EventAsked, IretFaults, IretFaultsWith, ExitsFor
<1>7. IretTold'
  BY InjectionAssumption DEF InjectInv, IretTold, IretFaults, IretFaultsWith, ExitsFor
<1>8. MaskKnown'
  BY InjectionAssumption DEF InjectInv, MaskKnown, IretFaults, InjectTypeOK, FlagsTypeOK,
     IretFaultsWith, ExitsFor
<1>9. HandlerBlocks'
  BY InjectionAssumption DEF InjectInv, HandlerBlocks, IretFaults, InjectTypeOK,
     FlagsTypeOK, IretFaultsWith, GuestRuns, ExitsFor
<1>10. NmisAreReal'
  BY InjectionAssumption DEF InjectInv, NmisAreReal, IretFaults, InFlight, IretFaultsWith,
     GuestRuns, ExitsFor, arrivals, queue
<1>11. QED
  BY <1>1, <1>2, <1>3, <1>4, <1>5, <1>6, <1>7, <1>8, <1>9, <1>10 DEF InjectInv, InjectTypeOK

\* A fault of the guest exits, or the guest takes it itself.
LEMMA FaultKeeps == ASSUME InjectInv, Fault PROVE InjectInv'
<1>1. StageTypeOK'
  BY InjectionAssumption DEF InjectInv, StageTypeOK, Fault, Exits, Exceptions,
     InjectTypeOK, ExitsFor, queue, guest
<1>2. FlagsTypeOK'
  BY InjectionAssumption DEF InjectInv, FlagsTypeOK, Fault, InjectTypeOK, apic, queue,
     masks, guest
<1>3. CountsTypeOK'
  BY InjectionAssumption DEF InjectInv, CountsTypeOK, Fault, InjectTypeOK, apic, arrivals,
     queue, guest
<1>4. OneException'
  BY InjectionAssumption DEF InjectInv, OneException, Fault, queue
<1>5. EntryFollows'
  BY InjectionAssumption DEF InjectInv, EntryFollows, Fault, GuestRuns, ExitsFor
<1>6. EventAsked'
  BY InjectionAssumption DEF InjectInv, EventAsked, Fault, ExitsFor
<1>7. IretTold'
  BY InjectionAssumption DEF InjectInv, IretTold, Fault, ExitsFor
<1>8. MaskKnown'
  BY InjectionAssumption DEF InjectInv, MaskKnown, Fault, ExitsFor, masks, guest
<1>9. HandlerBlocks'
  BY InjectionAssumption DEF InjectInv, HandlerBlocks, Fault, GuestRuns, ExitsFor, masks,
     guest
<1>10. NmisAreReal'
  BY InjectionAssumption DEF InjectInv, NmisAreReal, Fault, InFlight, GuestRuns, ExitsFor,
     arrivals, queue, guest
<1>11. QED
  BY <1>1, <1>2, <1>3, <1>4, <1>5, <1>6, <1>7, <1>8, <1>9, <1>10 DEF InjectInv, InjectTypeOK

\* A delivery that faults exits and names the event it was delivering.
LEMMA DeliveryExitsKeeps == ASSUME InjectInv, DeliveryExits PROVE InjectInv'
<1>1. StageTypeOK'
  BY InjectionAssumption DEF InjectInv, StageTypeOK, DeliveryExits, Exits, Exceptions,
     InjectTypeOK, eventVars, apic, arrivals, queue, masks, guest, ExitsFor
<1>2. FlagsTypeOK'
  BY InjectionAssumption DEF InjectInv, FlagsTypeOK, DeliveryExits, InjectTypeOK,
     arrivals, queue, masks, guest, apic
<1>3. CountsTypeOK'
  BY InjectionAssumption DEF InjectInv, CountsTypeOK, DeliveryExits, InjectTypeOK, apic,
     arrivals, queue, guest
<1>4. OneException'
  BY InjectionAssumption DEF InjectInv, OneException, DeliveryExits, queue
<1>5. EntryFollows'
  BY InjectionAssumption DEF InjectInv, EntryFollows, DeliveryExits, ExitsFor
<1>6. EventAsked'
  BY InjectionAssumption DEF InjectInv, EventAsked, DeliveryExits, ExitsFor
<1>7. IretTold'
  BY InjectionAssumption DEF InjectInv, IretTold, DeliveryExits, ExitsFor, eventVars
<1>8. MaskKnown'
  BY InjectionAssumption DEF InjectInv, MaskKnown, DeliveryExits, InjectTypeOK,
     FlagsTypeOK, ExitsFor, guest
<1>9. HandlerBlocks'
  BY InjectionAssumption DEF InjectInv, HandlerBlocks, DeliveryExits, EntryFollows,
     InjectTypeOK, StageTypeOK, FlagsTypeOK, CountsTypeOK, Exceptions, ExitsFor,
     eventVars, apic, arrivals, queue, masks, guest, Chosen
<1>10. NmisAreReal'
  BY InjectionAssumption DEF InjectInv, NmisAreReal, DeliveryExits, InFlight, ExitsFor,
     arrivals, queue, guest
<1>11. QED
  BY <1>1, <1>2, <1>3, <1>4, <1>5, <1>6, <1>7, <1>8, <1>9, <1>10 DEF InjectInv, InjectTypeOK

\* Nothing is queued at first.
LEMMA InjectInvInit == InjectInit => InjectInv
<1> SUFFICES ASSUME InjectInit PROVE InjectInv
  OBVIOUS
<1>1. StageTypeOK
  BY InjectionAssumption DEF InjectInit, StageTypeOK, Exits, Exceptions, NoExit
<1>2. FlagsTypeOK
  BY InjectionAssumption DEF InjectInit, FlagsTypeOK
<1>3. CountsTypeOK
  BY InjectionAssumption DEF InjectInit, CountsTypeOK
<1>4. OneException /\ EntryFollows /\ EventAsked /\ IretTold
  BY DEF InjectInit, OneException, EntryFollows, EventAsked, IretTold, NeedsReinjection
<1>5. MaskKnown /\ HandlerBlocks
  BY DEF InjectInit, MaskKnown, HandlerBlocks
<1>6. NmisAreReal
  BY InjectionAssumption DEF InjectInit, NmisAreReal, InFlight
<1>7. QED
  BY <1>1, <1>2, <1>3, <1>4, <1>5, <1>6 DEF InjectInv, InjectTypeOK

\* A step that changes nothing.
LEMMA InjectStutterKeeps == InjectInv /\ UNCHANGED eventVars => InjectInv'
<1> SUFFICES ASSUME InjectInv, UNCHANGED eventVars PROVE InjectInv'
  OBVIOUS
<1>1. InjectTypeOK'
  BY DEF InjectInv, InjectTypeOK, StageTypeOK, FlagsTypeOK, CountsTypeOK, eventVars,
     arrivals, apic,
         queue, masks, guest
<1>2. OneException' /\ EntryFollows' /\ EventAsked' /\ IretTold'
  BY DEF InjectInv, OneException, EntryFollows, Chosen, EventAsked, IretTold,
         NeedsReinjection, eventVars, arrivals, apic, queue, masks, guest
<1>3. MaskKnown' /\ HandlerBlocks' /\ NmisAreReal'
  BY DEF InjectInv, MaskKnown, HandlerBlocks, NmisAreReal, InFlight, eventVars, arrivals,
         apic, queue, masks, guest
<1>4. QED
  BY <1>1, <1>2, <1>3 DEF InjectInv

\* The invariant of the injection of events.
THEOREM InjectInvariance == InjectSpec => []InjectInv
<1>1. InjectInv /\ [InjectNext]_eventVars => InjectInv'
  <2> SUFFICES ASSUME InjectInv, [InjectNext]_eventVars PROVE InjectInv'
    OBVIOUS
  <2>1. CASE Arrive
    BY <2>1, InjectNmiKeeps, SendInterruptKeeps DEF Arrive
  <2>2. CASE Kvm
    BY <2>2, ProcessNmiKeeps, TripleFaultKeeps, CheckEventKeeps, ReinjectKeeps,
       InjectExceptionKeeps, InjectPendingNmiKeeps, InjectInterruptKeeps,
       EnterGuestKeeps, CancelInjectionKeeps, CompleteKeeps, HandleOtherKeeps,
       HandleEptKeeps, HandleExceptionKeeps DEF Kvm
  <2>3. CASE Processor
    BY <2>3, DeliveredKeeps, ForcedExitKeeps, HostExitKeeps DEF Processor
  <2>4. CASE GuestActs
    BY <2>4, InstructionKeeps, IretKeeps, IretFaultsKeeps, FaultKeeps,
       DeliveryExitsKeeps DEF GuestActs
  <2>5. CASE UNCHANGED eventVars
    BY <2>5, InjectStutterKeeps
  <2>6. QED
    BY <2>1, <2>2, <2>3, <2>4, <2>5 DEF InjectNext
<1>2. QED
  BY <1>1, InjectInvInit, PTL DEF InjectSpec

\* For any number of NMIs, exits and faults: the guest gets no NMI in its NMI handler,
\* what an entry injects is what the software has queued, and no NMI is made up.
THEOREM InjectedNmisDoNotNest == InjectSpec => []NmisDoNotNest
<1>1. InjectInv => EntryIsQueued
  BY DEF InjectInv, EntryIsQueued, EntryFollows, Chosen
<1>2. InjectInv => OneHandler
  BY InjectionAssumption DEF InjectInv, OneHandler, HandlerBlocks, InjectTypeOK,
     CountsTypeOK
<1>3. InjectInv => NmisDoNotNest
  BY <1>1, <1>2 DEF InjectInv, NmisDoNotNest
<1>4. QED
  BY <1>3, InjectInvariance, PTL

\* No entry forgets what an earlier one did not deliver, and no second NMI waits while
\* neither can be injected.
THEOREM InjectForgetsNothing == InjectSpec => NothingForgotten
<1>1. InjectInv => InjectsAgain
  BY DEF InjectInv, InjectsAgain, EnterGuest, EntryFollows, Chosen, NeedsReinjection,
         InjectTypeOK, StageTypeOK, FlagsTypeOK, Exceptions
<1>2. InjectInv => SecondWaits
  <2> SUFFICES ASSUME InjectInv, ProcessNmi, blocked \/ nmiInjected, "ept" \notin iretsMet
               PROVE  nmiPending' <= 1
    BY DEF SecondWaits
  <2>1. QED
    BY InjectionAssumption DEF InjectInv, ProcessNmi, AtMost, NmiLimit, NmiMask,
       MaskKnown, InjectTypeOK,
           FlagsTypeOK, CountsTypeOK
<1>3. InjectInv /\ [InjectNext]_eventVars => [InjectsAgain /\ SecondWaits]_eventVars
  BY <1>1, <1>2
<1>4. QED
  BY <1>3, InjectInvariance, PTL DEF InjectSpec, NothingForgotten
=============================================================================
