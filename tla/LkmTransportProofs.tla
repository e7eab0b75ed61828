------------------------- MODULE LkmTransportProofs -------------------------
(***************************************************************************)
(* Theorems about LkmTransport, for any number of motors and frames.       *)
(***************************************************************************)
EXTENDS LkmTransport, SequenceTheorems, FiniteSetTheorems, TLAPS

\* In the middle of a send the flag and the mailbox of that motor may differ,
\* but only in the way the thread is about to settle.
Agree(m) == m \in pending <=> mailbox[m] # <<>>

TransportInv ==
    /\ \A m \in Motor : m # sending.motor => Agree(m)
    /\ pc = "idle" => sending = Nothing /\ \A m \in Motor : Agree(m)
    /\ pc = "can_send" => /\ sending.motor \in Motor /\ sending.frame \in Frame
                          /\ sending.motor \in pending
                          /\ mailbox[sending.motor] = <<>>
    /\ pc = "settle" => /\ sending.motor \in Motor
                        /\ ret => Agree(sending.motor)
                        /\ ~ret => mailbox[sending.motor] = <<>>

\* TypeOK, with the mailbox's domain.
Typed == TypeOK /\ DOMAIN mailbox = Motor /\ mailbox = [m \in Motor |-> mailbox[m]]

IInv == Typed /\ TransportInv

\* A mailbox holds nothing or one frame.
LEMMA MailboxCases ==
    ASSUME NEW s \in Seq(Frame), Len(s) <= 1
    PROVE  s = <<>> \/ (Len(s) = 1 /\ s[1] \in Frame /\ Tail(s) = <<>>)
<1>1. Len(s) \in Nat /\ s \in [1 .. Len(s) -> Frame]
  BY LenProperties
<1>2. CASE Len(s) = 0
  BY <1>2, EmptySeq
<1>3. CASE Len(s) = 1
  <2>1. s # <<>>
    BY <1>3, EmptySeq
  <2>2. Tail(s) \in Seq(Frame) /\ Len(Tail(s)) = 0
    BY <1>3, <2>1, HeadTailProperties
  <2>3. Tail(s) = <<>>
    BY <2>2, EmptySeq
  <2>4. s[1] \in Frame
    BY <1>1, <1>3
  <2> QED BY <1>3, <2>3, <2>4
<1> QED BY <1>1, <1>2, <1>3

LEMMA InitInv == Init => IInv
<1> SUFFICES ASSUME Init PROVE IInv
  OBVIOUS
<1>1. \A m \in Motor : mailbox[m] = <<>> /\ <<>> \in Seq(Frame) /\ Len(<<>>) = 0
  BY EmptySeq DEF Init
<1>2. Typed
  BY <1>1 DEF Init, Typed, TypeOK, Nothing
<1> QED BY <1>1, <1>2 DEF Init, IInv, TransportInv, Agree, Nothing

LEMMA BeginInv == ASSUME IInv, NEW m \in Motor, NEW f \in Frame, Begin(m, f) PROVE IInv'
<1>1. Typed'
  BY DEF IInv, Typed, TypeOK, Begin, Mark
<1>2. TransportInv'
  BY DEF IInv, TransportInv, Agree, Begin, Mark
<1> QED BY <1>1, <1>2 DEF IInv

LEMMA CanSendInv == ASSUME IInv, CanSend PROVE IInv'
<1> DEFINE me == sending.motor
<1>1. me \in Motor /\ sending.frame \in Frame /\ mailbox[me] = <<>> /\ me \in pending
  BY DEF IInv, TransportInv, CanSend
<1>2. CASE UNCHANGED mailbox /\ ret' = FALSE
  <2>1. Typed'
    BY <1>2 DEF IInv, Typed, TypeOK, CanSend
  <2>2. TransportInv'
    BY <1>1, <1>2 DEF IInv, TransportInv, Agree, CanSend
  <2> QED BY <2>1, <2>2 DEF IInv
<1>3. CASE /\ mailbox' = [mailbox EXCEPT ![me] = Append(@, sending.frame)]
           /\ ret' = TRUE
  <2>1. /\ Append(<<>>, sending.frame) \in Seq(Frame)
        /\ Len(Append(<<>>, sending.frame)) = 1
        /\ Append(<<>>, sending.frame) # <<>>
    BY <1>1, EmptySeq, AppendProperties
  <2>2. /\ mailbox'[me] = Append(<<>>, sending.frame)
        /\ \A m \in Motor \ {me} : mailbox'[m] = mailbox[m]
        /\ DOMAIN mailbox' = Motor /\ mailbox' = [m \in Motor |-> mailbox'[m]]
    BY <1>1, <1>3 DEF IInv, Typed
  <2>3. Typed'
    BY <1>1, <1>3, <2>1, <2>2 DEF IInv, Typed, TypeOK, CanSend
  <2>4. TransportInv'
    BY <1>1, <1>3, <2>1, <2>2 DEF IInv, TransportInv, Agree, CanSend
  <2> QED BY <2>3, <2>4 DEF IInv
<1> QED BY <1>2, <1>3 DEF CanSend

LEMMA FinishInv == ASSUME IInv, Finish PROVE IInv'
<1>1. Typed'
  BY DEF IInv, Typed, TypeOK, Finish, Settle
<1>2. \A m \in Motor : Agree(m)'
  BY DEF IInv, TransportInv, Agree, Finish, Settle
<1> QED BY <1>1, <1>2 DEF IInv, TransportInv, Finish

LEMMA TxCompleteInv == ASSUME IInv, NEW m \in Motor, TxComplete(m) PROVE IInv'
<1>1. mailbox[m] \in Seq(Frame) /\ Len(mailbox[m]) <= 1 /\ mailbox[m] # <<>>
  BY DEF IInv, Typed, TypeOK, TxComplete
<1>2. /\ mailbox'[m] = <<>>
      /\ \A n \in Motor \ {m} : mailbox'[n] = mailbox[n]
      /\ DOMAIN mailbox' = Motor /\ mailbox' = [n \in Motor |-> mailbox'[n]]
  BY <1>1, MailboxCases DEF IInv, Typed, TxComplete
<1>3. <<>> \in Seq(Frame) /\ Len(<<>>) = 0
  BY EmptySeq
<1>4. Typed'
  BY <1>2, <1>3 DEF IInv, Typed, TypeOK, TxComplete
<1>5. pc = "can_send" => m # sending.motor
  BY <1>1 DEF IInv, TransportInv
<1>6. TransportInv'
  BY <1>1, <1>2, <1>5 DEF IInv, TransportInv, Agree, TxComplete
<1> QED BY <1>4, <1>6 DEF IInv

LEMMA NextInv == IInv /\ [Next]_vars => IInv'
<1> SUFFICES ASSUME IInv, [Next]_vars PROVE IInv'
  OBVIOUS
<1>1. CASE UNCHANGED vars
  BY <1>1 DEF IInv, Typed, TypeOK, TransportInv, Agree, vars
<1> QED BY <1>1, BeginInv, CanSendInv, FinishInv, TxCompleteInv
        DEF Next, Thread, Interrupt

LEMMA InvHolds == Spec => []IInv
BY InitInv, NextInv, PTL DEF Spec

\* Every variable keeps its type, and no motor ever has two frames outstanding
\* (send_frame, tx_complete).
THEOREM TransportTypeCorrect == Spec => []TypeOK
<1>1. IInv => TypeOK
  BY DEF IInv, Typed
<1> QED BY <1>1, InvHolds, PTL

\* Between two sends tx_pending says exactly whether a frame is outstanding,
\* however the interrupt interleaves with send_frame.
THEOREM FlagMatchesMailbox == Spec => []PendingIsOutstanding
<1>1. IInv => PendingIsOutstanding
  BY DEF IInv, Typed, TypeOK, TransportInv, Agree, PendingIsOutstanding
<1> QED BY <1>1, InvHolds, PTL

-----------------------------------------------------------------------------
(* The transmit buffers *)

\* While a frame is handed over, only the other motors hold a buffer, and each of
\* them at most one.
LEMMA OthersHoldOne ==
    ASSUME IInv, pc = "can_send"
    PROVE  \A o \in Outstanding : o[1] \in Motor \ {sending.motor} /\ o = <<o[1], 1>>
<1> SUFFICES ASSUME NEW o \in Outstanding
             PROVE  o[1] \in Motor \ {sending.motor} /\ o = <<o[1], 1>>
  OBVIOUS
<1>1. PICK m \in Motor : o \in {m} \X DOMAIN mailbox[m]
  BY DEF Outstanding
<1>2. mailbox[m] \in Seq(Frame) /\ Len(mailbox[m]) <= 1
  BY DEF IInv, Typed, TypeOK
<1>3. DOMAIN mailbox[m] = 1 .. Len(mailbox[m]) /\ Len(mailbox[m]) \in Nat
  BY <1>2, LenProperties
<1>4. o[1] = m /\ o[2] \in 1 .. Len(mailbox[m]) /\ o = <<o[1], o[2]>>
  BY <1>1, <1>3
<1>5. mailbox[m] # <<>> /\ o[2] = 1
  <2> DEFINE n == Len(mailbox[m])
  <2>1. n \in Nat /\ n <= 1 /\ o[2] \in 1 .. n
    BY <1>2, <1>3, <1>4
  <2> HIDE DEF n
  <2>2. n = 1 /\ o[2] = 1
    BY <2>1
  <2>3. mailbox[m] # <<>>
    BY <2>2, EmptySeq DEF n
  <2> QED BY <2>2, <2>3
<1>6. m # sending.motor
  BY <1>5 DEF IInv, TransportInv
<1> QED BY <1>4, <1>5, <1>6

\* can_send never finds the controller's buffers taken, however many motors share
\* them, as long as there is one for each (send_frame, lkm_motor.c:89-90).
THEOREM BuffersAlwaysSuffice == Spec => []BuffersSuffice
<1>1. ASSUME IInv, pc = "can_send" PROVE ~Full
  <2> DEFINE me == sending.motor
             owner == [o \in Outstanding |-> o[1]]
  <2>1. me \in Motor
    BY <1>1 DEF IInv, TransportInv
  <2>2. /\ IsFiniteSet(Motor \ {me})
        /\ Cardinality(Motor \ {me}) = Cardinality(Motor) - 1
    BY <2>1, FS_RemoveElement, TransportAssumption
  <2>3. owner \in Injection(Outstanding, Motor \ {me})
    <3>1. owner \in [Outstanding -> Motor \ {me}]
      BY <1>1, OthersHoldOne
    <3>2. IsInjective(owner)
      BY <1>1, OthersHoldOne DEF IsInjective
    <3> QED BY <3>1, <3>2 DEF Injection
  <2>4. IsFiniteSet(Outstanding)
        /\ Cardinality(Outstanding) <= Cardinality(Motor \ {me})
    BY <2>2, <2>3, FS_Injection
  <2>5. Cardinality(Motor) \in Nat /\ Cardinality(Outstanding) \in Nat
    BY <2>4, FS_CardinalityType, TransportAssumption
  <2> QED BY <2>2, <2>4, <2>5, TransportAssumption DEF Full
<1>2. IInv => BuffersSuffice
  BY <1>1 DEF BuffersSuffice
<1> QED BY <1>2, InvHolds, PTL

-----------------------------------------------------------------------------
(* Refinement *)

slot == [m \in Motor |-> IF mailbox[m] = <<>> THEN "none" ELSE mailbox[m][1]]

LEMMA SlotTyped == IInv => slot \in [Motor -> Frame \cup {"none"}]
BY MailboxCases DEF IInv, Typed, TypeOK, slot

LEMMA StepImplementsSlot == IInv /\ IInv' /\ [Next]_vars => [Slots!Next]_slot
<1> SUFFICES ASSUME IInv, IInv', [Next]_vars PROVE Slots!Next \/ UNCHANGED slot
  BY DEF slot
<1>1. slot' \in [Motor -> Frame \cup {"none"}]
  BY SlotTyped DEF slot, IInv, Typed, TypeOK, TransportInv, Agree
<1>2. ASSUME UNCHANGED mailbox PROVE UNCHANGED slot
  BY <1>2 DEF slot
<1>3. CASE CanSend /\ mailbox' # mailbox
  <2> DEFINE me == sending.motor
  <2>1. /\ me \in Motor /\ sending.frame \in Frame /\ mailbox[me] = <<>>
        /\ mailbox' = [mailbox EXCEPT ![me] = Append(@, sending.frame)]
    BY <1>3 DEF IInv, TransportInv, CanSend
  <2>2. slot[me] = "none" /\ \A m \in Motor \ {me} : slot'[m] = slot[m]
    BY <2>1 DEF slot, IInv, Typed
  <2>3. slot'[me] = "none" \/ slot'[me] \in Frame
    BY <1>1, <2>1
  <2> QED BY <1>1, <2>1, <2>2, <2>3
          DEF Slots!Next, Slots!Accept, Slots!Clear, slot
<1>4. ASSUME NEW m \in Motor, TxComplete(m) PROVE Slots!Next
  <2>1. mailbox'[m] = <<>> /\ \A n \in Motor \ {m} : mailbox'[n] = mailbox[n]
    BY <1>4, MailboxCases DEF IInv, Typed, TypeOK, TxComplete
  <2>2. slot'[m] = "none" /\ \A n \in Motor \ {m} : slot'[n] = slot[n]
    BY <2>1 DEF slot
  <2> QED BY <1>1, <2>2 DEF Slots!Next, Slots!Accept, Slots!Clear, slot
<1> QED BY <1>2, <1>3, <1>4
        DEF Next, Thread, Interrupt, Begin, Finish, CanSend, vars

\* The transport implements one transmit slot per motor (TxSlot), which is what
\* Gimbal takes each send to be.
THEOREM TransportImplementsSlots == Spec => ImplementsSlots
<1>1. Init => Slots!Init
  BY DEF Init, Slots!Init
<1>2. IInv /\ IInv' /\ [Next]_vars => [Slots!Next]_slot
  BY StepImplementsSlot
<1> QED BY <1>1, <1>2, InvHolds, PTL DEF Spec, ImplementsSlots, Slots!Spec, slot
=============================================================================
