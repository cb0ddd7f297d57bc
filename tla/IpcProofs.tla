----------------------------- MODULE IpcProofs -----------------------------
(***************************************************************************)
(* Theorems about the mailbox, for rings of any size, any codes, any tags. *)
(***************************************************************************)
EXTENDS Ipc, SequenceTheorems, TLAPS

-----------------------------------------------------------------------------
(* Ring positions. *)

\* The next position of a ring is the successor, or 0 behind the last slot.
LEMMA WrapAround ==
    ASSUME NEW n \in Nat, n >= 2, NEW i \in 0 .. n - 1
    PROVE  (i + 1) % n = IF i = n - 1 THEN 0 ELSE i + 1
<1>1. CASE i = n - 1
  <2>1. i + 1 = n
    BY <1>1
  <2>2. n % n = 0
    OBVIOUS
  <2> QED
    BY <1>1, <2>1, <2>2
<1>2. CASE i # n - 1
  <2>1. i + 1 \in 0 .. n - 1
    BY <1>2
  <2>2. (i + 1) % n = i + 1
    BY <2>1
  <2> QED
    BY <1>2, <2>2
<1> QED
  BY <1>1, <1>2

\* NextIn and NextOut stay inside their rings.
LEMMA NextInRing ==
    /\ \A i \in InIndex : NextIn(i) \in InIndex /\ NextIn(i) = IF i = InSize - 1 THEN 0 ELSE i + 1
    /\ \A i \in OutIndex : NextOut(i) \in OutIndex /\ NextOut(i) = IF i = OutSize - 1 THEN 0 ELSE i + 1
BY WrapAround, SizeAssumption DEF NextIn, NextOut, InIndex, OutIndex

-----------------------------------------------------------------------------
(* Windows: the slots from a head up to a tail. *)

\* PokeInTail adds the slot at in_tail to the requests (ipc_vpost).
LEMMA PokeWindow ==
    ASSUME TypeOK, PokeInTail, in_tail = ppc_intail, ~InFull
    PROVE  Requests' = Requests \cup {in_tail} /\ Replies' = Replies /\ in_tail \notin Requests
<1>1. /\ in_tail \in 0 .. InSize - 1 /\ arm_inhead \in 0 .. InSize - 1
      /\ NextIn(in_tail) = IF in_tail = InSize - 1 THEN 0 ELSE in_tail + 1
      /\ NextIn(in_tail) # arm_inhead
  BY NextInRing DEF TypeOK, InFull, InIndex
<1>2. /\ \A i \in 0 .. InSize - 1 :
            InWindow(i, arm_inhead, NextIn(in_tail)) <=> InWindow(i, arm_inhead, in_tail) \/ i = in_tail
      /\ ~InWindow(in_tail, arm_inhead, in_tail)
  BY <1>1, SizeAssumption DEF InWindow
<1> QED
  BY <1>1, <1>2 DEF PokeInTail, Requests, Replies, InIndex, armVars, outside, statics, caller

\* ArmTake removes the slot at arm_inhead from them.
LEMMA TakeWindow ==
    ASSUME TypeOK, ArmTake
    PROVE  /\ arm_inhead \in Requests /\ Requests' = Requests \ {arm_inhead}
           /\ Replies' = Replies
<1>1. /\ arm_inhead \in 0 .. InSize - 1 /\ ppc_intail \in 0 .. InSize - 1
      /\ NextIn(arm_inhead) = IF arm_inhead = InSize - 1 THEN 0 ELSE arm_inhead + 1
      /\ arm_inhead # ppc_intail
  BY NextInRing DEF TypeOK, ArmTake, InIndex
<1>2. /\ \A i \in 0 .. InSize - 1 :
            InWindow(i, NextIn(arm_inhead), ppc_intail) <=> InWindow(i, arm_inhead, ppc_intail) /\ i # arm_inhead
      /\ InWindow(arm_inhead, arm_inhead, ppc_intail)
  BY <1>1, SizeAssumption DEF InWindow
<1> QED
  BY <1>1, <1>2 DEF ArmTake, Requests, Replies, InIndex, ppcRegs

\* CopyReply removes the slot at out_head from the replies (ipc_receive).
LEMMA CopyWindow ==
    ASSUME TypeOK, CopyReply, out_head = ppc_outhead, arm_outtail # out_head
    PROVE  /\ out_head \in Replies /\ Replies' = Replies \ {out_head}
           /\ Requests' = Requests
           /\ \A j \in Replies : j # out_head => InWindow(out_head, ppc_outhead, j)
           /\ \A i, j \in Replies' : InWindow(i, ppc_outhead', j) => InWindow(i, ppc_outhead, j)
<1>1. /\ out_head \in 0 .. OutSize - 1 /\ arm_outtail \in 0 .. OutSize - 1
      /\ NextOut(out_head) = IF out_head = OutSize - 1 THEN 0 ELSE out_head + 1
      /\ out_head # arm_outtail
  BY NextInRing DEF TypeOK, OutIndex
<1>2. /\ \A i \in 0 .. OutSize - 1 :
            InWindow(i, NextOut(out_head), arm_outtail) <=> InWindow(i, out_head, arm_outtail) /\ i # out_head
      /\ InWindow(out_head, out_head, arm_outtail)
      /\ \A j \in 0 .. OutSize - 1 :
            InWindow(j, out_head, arm_outtail) /\ j # out_head => InWindow(out_head, out_head, j)
      /\ \A i, j \in 0 .. OutSize - 1 :
            InWindow(i, NextOut(out_head), arm_outtail) /\ InWindow(j, NextOut(out_head), arm_outtail)
               /\ InWindow(i, NextOut(out_head), j) => InWindow(i, out_head, j)
  BY <1>1, SizeAssumption DEF InWindow
<1> QED
  BY <1>1, <1>2 DEF CopyReply, Requests, Replies, OutIndex, armVars, outside, statics, caller

\* ArmReply adds the slot at arm_outtail to them.
LEMMA ReplyWindow ==
    ASSUME TypeOK, ArmReply
    PROVE  /\ Replies' = Replies \cup {arm_outtail} /\ arm_outtail \notin Replies
           /\ Requests' = Requests
           /\ \A j \in Replies : ~InWindow(arm_outtail, ppc_outhead, j)
           /\ ~InWindow(arm_outtail, ppc_outhead, arm_outtail)
<1>1. /\ arm_outtail \in 0 .. OutSize - 1 /\ ppc_outhead \in 0 .. OutSize - 1
      /\ NextOut(arm_outtail) = IF arm_outtail = OutSize - 1 THEN 0 ELSE arm_outtail + 1
      /\ NextOut(arm_outtail) # ppc_outhead
  BY NextInRing DEF TypeOK, ArmReply, OutFull, OutIndex
<1>2. /\ \A i \in 0 .. OutSize - 1 :
            InWindow(i, ppc_outhead, NextOut(arm_outtail)) <=> InWindow(i, ppc_outhead, arm_outtail) \/ i = arm_outtail
      /\ ~InWindow(arm_outtail, ppc_outhead, arm_outtail)
      /\ \A j \in 0 .. OutSize - 1 :
            InWindow(j, ppc_outhead, arm_outtail) => ~InWindow(arm_outtail, ppc_outhead, j)
  BY <1>1, SizeAssumption DEF InWindow
<1> QED
  BY <1>1, <1>2 DEF ArmReply, Requests, Replies, OutIndex, ppcRegs

-----------------------------------------------------------------------------
(* The first state. *)

\* Replies an earlier program left are messages of no call of this program.
LEMMA LeftoverOld ==
    \A m \in Leftover : m \in Message /\ ~Own(m) /\ ~(m.code = SlowPing /\ m.tag = 1)
BY CodeAssumption DEF Leftover, Message, Own

\* The invariant holds when wiiMac starts.
LEMMA InitIInv == Init => IInv
<1> SUFFICES ASSUME Init PROVE IInv
  OBVIOUS
<1>1. TypeOK
  <2>1. out_queue \in [OutIndex -> Message \cup {NoMsg}]
    BY LeftoverOld DEF Init
  <2>2. header_ok \in BOOLEAN
    BY CodeAssumption DEF Init
  <2>3. 0 \in InIndex /\ 0 \in OutIndex /\ 0 \in Tags /\ "boot" \in PcStates
    BY SizeAssumption DEF PcStates, InIndex, OutIndex, Tags
  <2>4. /\ in_queue \in [InIndex -> Message \cup {NoMsg}]
        /\ out_line \in [OutIndex -> Message \cup {NoMsg}]
    BY DEF Init
  <2> QED
    BY <2>1, <2>2, <2>3, <2>4 DEF Init, TypeOK
<1>2. Requests = {}
  BY SizeAssumption DEF Init, Requests, InWindow, InIndex
<1>3. \A i \in Replies : out_queue[i] \in Leftover
  BY DEF Init, Replies
<1>4. PositionsAgree /\ CallMade
  BY DEF Init, PositionsAgree, CallMade, Calling, Waiting
<1>5. RequestsStored
  BY <1>2 DEF Init, RequestsStored, RequestsIntact
<1>6. RepliesOrdered
  BY <1>3, LeftoverOld DEF Init, RepliesOrdered, SlowPingDrains
<1>7. OneAnswer
  BY <1>2, <1>3, LeftoverOld
     DEF Init, OneAnswer, Sent, Taken, Answered, Held, Asked, ReplyIsMine
<1> QED
  BY <1>1, <1>4, <1>5, <1>6, <1>7 DEF IInv

-----------------------------------------------------------------------------
(* The steps. *)

\* The tags wrap into Tags.
LEMMA TagWraps == \A t \in Tags : (t + 1) % TagMod \in Tags
BY WrapAround, SizeAssumption DEF Tags

\* Every variable keeps its type.
LEMMA TypeStep == IInv /\ [Next]_vars => TypeOK'
<1> SUFFICES ASSUME IInv, [Next]_vars PROVE TypeOK'
  OBVIOUS
<1> USE DEF IInv, TypeOK, PcStates, statics, caller, lineVars, ppcRegs, armVars, outside
<1>1. CASE Initialize
  <2>1. 1 \in Tags
    BY SizeAssumption DEF Tags
  <2>2. CASE header_ok
    BY <1>1, <2>1, <2>2 DEF Initialize
  <2>3. CASE ~header_ok
    BY <1>1, <2>3 DEF Initialize
  <2> QED
    BY <2>2, <2>3
<1>2. CASE Exchange
  BY <1>2 DEF Exchange, Message
<1>3. CASE Post
  BY <1>3, SizeAssumption DEF Post, Message, Tags
<1>4. CASE WriteSlot
  BY <1>4 DEF WriteSlot
<1>5. CASE SyncSlot
  BY <1>5 DEF SyncSlot
<1>6. CASE PokeInTail
  BY <1>6, NextInRing DEF PokeInTail
<1>7. CASE SyncReply
  BY <1>7 DEF SyncReply
<1>8. CASE CopyReply
  BY <1>8, NextInRing DEF CopyReply, LoadReply, RepliesOrdered
<1>9. CASE Unhandled
  BY <1>9 DEF Unhandled
<1>10. CASE Return
  BY <1>10, TagWraps DEF Return
<1>11. CASE Shutdown
  BY <1>11 DEF Shutdown
<1>12. CASE Flush
  BY <1>12 DEF Flush
<1>13. CASE ArmTake
  BY <1>13, NextInRing, TakeWindow DEF ArmTake, RequestsStored, RequestsIntact
<1>14. CASE ArmReply
  BY <1>14, NextInRing DEF ArmReply
<1>15. CASE UNCHANGED vars
  BY <1>15 DEF vars
<1> QED
  BY <1>1, <1>2, <1>3, <1>4, <1>5, <1>6, <1>7, <1>8, <1>9, <1>10, <1>11,
     <1>12, <1>13, <1>14, <1>15 DEF Next, Ppc

\* The PowerPC's positions stay the published ones.
LEMMA PositionsStep == IInv /\ [Next]_vars => PositionsAgree'
<1> SUFFICES ASSUME IInv, [Next]_vars PROVE PositionsAgree'
  OBVIOUS
<1> USE DEF IInv, PositionsAgree, statics, caller, lineVars, ppcRegs, armVars, outside
<1>1. CASE Initialize
  BY <1>1 DEF Initialize
<1>2. CASE Exchange
  BY <1>2 DEF Exchange
<1>3. CASE Post
  BY <1>3 DEF Post
<1>4. CASE WriteSlot
  BY <1>4 DEF WriteSlot
<1>5. CASE SyncSlot
  BY <1>5 DEF SyncSlot
<1>6. CASE PokeInTail
  BY <1>6 DEF PokeInTail
<1>7. CASE SyncReply
  BY <1>7 DEF SyncReply
<1>8. CASE CopyReply
  BY <1>8 DEF CopyReply
<1>9. CASE Unhandled
  BY <1>9 DEF Unhandled
<1>10. CASE Return
  BY <1>10 DEF Return
<1>11. CASE Shutdown
  BY <1>11 DEF Shutdown
<1>12. CASE Flush
  BY <1>12 DEF Flush
<1>13. CASE ArmTake
  BY <1>13 DEF ArmTake
<1>14. CASE ArmReply
  BY <1>14 DEF ArmReply
<1>15. CASE UNCHANGED vars
  BY <1>15 DEF vars
<1> QED
  BY <1>1, <1>2, <1>3, <1>4, <1>5, <1>6, <1>7, <1>8, <1>9, <1>10, <1>11,
     <1>12, <1>13, <1>14, <1>15 DEF Next, Ppc

\* The call in progress stays this program's.
LEMMA CallStep == IInv /\ [Next]_vars => CallMade'
<1> SUFFICES ASSUME IInv, [Next]_vars PROVE CallMade'
  OBVIOUS
<1> USE DEF IInv, CallMade, Calling, Waiting, Own, statics, caller, lineVars, ppcRegs, armVars, outside
<1>1. CASE Initialize
  BY <1>1 DEF Initialize, PositionsAgree
<1>2. CASE Exchange
  BY <1>2 DEF Exchange, PositionsAgree, TypeOK, Message
<1>3. CASE Post
  BY <1>3, SizeAssumption DEF Post, Message, Tags
<1>4. CASE WriteSlot
  BY <1>4 DEF WriteSlot
<1>5. CASE SyncSlot
  BY <1>5 DEF SyncSlot
<1>6. CASE PokeInTail
  BY <1>6 DEF PokeInTail
<1>7. CASE SyncReply
  BY <1>7 DEF SyncReply
<1>8. CASE CopyReply
  BY <1>8 DEF CopyReply
<1>9. CASE Unhandled
  BY <1>9 DEF Unhandled
<1>10. CASE Return
  BY <1>10 DEF Return
<1>11. CASE Shutdown
  BY <1>11 DEF Shutdown
<1>12. CASE Flush
  BY <1>12 DEF Flush
<1>13. CASE ArmTake
  BY <1>13 DEF ArmTake
<1>14. CASE ArmReply
  BY <1>14 DEF ArmReply
<1>15. CASE UNCHANGED vars
  BY <1>15 DEF vars
<1> QED
  BY <1>1, <1>2, <1>3, <1>4, <1>5, <1>6, <1>7, <1>8, <1>9, <1>10, <1>11,
     <1>12, <1>13, <1>14, <1>15 DEF Next, Ppc

\* A step that moves neither end of a ring leaves its window as it is.
LEMMA WindowsStay ==
    /\ UNCHANGED <<arm_inhead, ppc_intail>> => Requests' = Requests
    /\ UNCHANGED <<ppc_outhead, arm_outtail>> => Replies' = Replies
BY DEF Requests, Replies

\* A message that matches the call is a reply of this program: the only call
\* made while old replies may be around is the slow ping, and none matches it.
LEMMA ReplyOwn ==
    ASSUME IInv, pc = "match", Matches(req_recv)
    PROVE  Own(req_recv)
BY LeftoverOld DEF IInv, RepliesOrdered, PositionsAgree, CallMade, Calling, Matches

\* A published request stays in memory until MINI takes it.
LEMMA StoredStep == IInv /\ [Next]_vars => RequestsStored'
<1> SUFFICES ASSUME IInv, [Next]_vars PROVE RequestsStored'
  OBVIOUS
<1> USE DEF IInv, RequestsStored, RequestsIntact, InFull, statics, caller, lineVars, ppcRegs, armVars, outside
<1>1. CASE Initialize
  BY <1>1, WindowsStay DEF Initialize
<1>2. CASE Exchange
  BY <1>2, WindowsStay DEF Exchange
<1>3. CASE Post
  BY <1>3, WindowsStay DEF Post
<1>4. CASE WriteSlot
  BY <1>4, WindowsStay DEF WriteSlot
<1>5. CASE SyncSlot
  <2>1. in_tail \notin Requests
    BY <1>5 DEF SyncSlot, PositionsAgree, TypeOK, Requests, InWindow, InIndex
  <2>2. Requests' = Requests /\ \A i \in Requests : in_queue'[i] = in_queue[i]
    BY <1>5, <2>1, WindowsStay DEF SyncSlot, TypeOK, Requests
  <2>3. in_queue'[in_tail] = call
    BY <1>5 DEF SyncSlot, TypeOK
  <2> QED
    BY <1>5, <2>2, <2>3 DEF SyncSlot
<1>6. CASE PokeInTail
  BY <1>6, PokeWindow DEF PokeInTail, PositionsAgree, TypeOK, CallMade, Calling, Own
<1>7. CASE SyncReply
  BY <1>7, WindowsStay DEF SyncReply
<1>8. CASE CopyReply
  BY <1>8, CopyWindow DEF CopyReply, RepliesOrdered, PositionsAgree
<1>9. CASE Unhandled
  BY <1>9, WindowsStay DEF Unhandled
<1>10. CASE Return
  BY <1>10, WindowsStay DEF Return
<1>11. CASE Shutdown
  BY <1>11, WindowsStay DEF Shutdown
<1>12. CASE Flush
  BY <1>12, WindowsStay DEF Flush
<1>13. CASE ArmTake
  <2>1. pc \in {"sync", "poke"} => arm_inhead' # NextIn(in_tail')
    BY <1>13, NextInRing, SizeAssumption DEF ArmTake, PositionsAgree, TypeOK, InIndex
  <2>2. in_queue[arm_inhead] \in Message /\ Own(in_queue[arm_inhead])
    BY <1>13, TakeWindow DEF Own
  <2>3. Requests' \subseteq Requests
    BY <1>13, TakeWindow
  <2>4. \A m \in working' : m \in Message /\ Own(m)
    BY <1>13, <2>2 DEF ArmTake
  <2> QED
    BY <1>13, <2>1, <2>3, <2>4 DEF ArmTake
<1>14. CASE ArmReply
  BY <1>14, ReplyWindow DEF ArmReply
<1>15. CASE UNCHANGED vars
  BY <1>15, WindowsStay DEF vars
<1> QED
  BY <1>1, <1>2, <1>3, <1>4, <1>5, <1>6, <1>7, <1>8, <1>9, <1>10, <1>11,
     <1>12, <1>13, <1>14, <1>15 DEF Next, Ppc

\* Old replies stay in front of this program's.
LEMMA OrderedStep == IInv /\ [Next]_vars => RepliesOrdered'
<1> SUFFICES ASSUME IInv, [Next]_vars PROVE RepliesOrdered'
  OBVIOUS
<1> USE DEF IInv, RepliesOrdered, SlowPingDrains, Own, statics, caller, lineVars, ppcRegs, armVars, outside
<1>1. CASE Initialize
  BY <1>1, WindowsStay DEF Initialize
<1>2. CASE Exchange
  BY <1>2, WindowsStay DEF Exchange
<1>3. CASE Post
  BY <1>3, WindowsStay DEF Post
<1>4. CASE WriteSlot
  BY <1>4, WindowsStay DEF WriteSlot
<1>5. CASE SyncSlot
  BY <1>5, WindowsStay DEF SyncSlot
<1>6. CASE PokeInTail
  BY <1>6, PokeWindow DEF PokeInTail, PositionsAgree, RequestsStored
<1>7. CASE SyncReply
  BY <1>7, WindowsStay DEF SyncReply, TypeOK
<1>8. CASE CopyReply
  BY <1>8, CopyWindow DEF CopyReply, PositionsAgree, LoadReply, TypeOK
<1>9. CASE Unhandled
  BY <1>9, WindowsStay DEF Unhandled
<1>10. CASE Return
  <2>1. Own(req_recv)
    BY <1>10, ReplyOwn DEF Return
  <2> QED
    BY <1>10, <2>1, WindowsStay DEF Return
<1>11. CASE Shutdown
  BY <1>11, WindowsStay DEF Shutdown
<1>12. CASE Flush
  BY <1>12, WindowsStay DEF Flush
<1>13. CASE ArmTake
  BY <1>13, TakeWindow DEF ArmTake
<1>14. CASE ArmReply
  <2>1. PICK m \in working : /\ out_queue' = [out_queue EXCEPT ![arm_outtail] = m]
                             /\ UNCHANGED <<pc, pinged, req_recv, out_head, out_line, ppc_outhead>>
    BY <1>14 DEF ArmReply
  <2>2. m \in Message /\ Own(m)
    BY DEF RequestsStored
  <2>3. /\ out_queue'[arm_outtail] = m
        /\ \A i \in Replies : out_queue'[i] = out_queue[i]
    BY <1>14, <2>1, ReplyWindow DEF TypeOK, Replies
  <2>4. pc = "copy" => arm_outtail' # out_head'
    BY <1>14, <2>1, ReplyWindow DEF ArmReply, PositionsAgree, OutFull
  <2> QED
    BY <1>14, <2>1, <2>2, <2>3, <2>4, ReplyWindow DEF ArmReply
<1>15. CASE UNCHANGED vars
  BY <1>15, WindowsStay DEF vars
<1> QED
  BY <1>1, <1>2, <1>3, <1>4, <1>5, <1>6, <1>7, <1>8, <1>9, <1>10, <1>11,
     <1>12, <1>13, <1>14, <1>15 DEF Next, Ppc

\* An exchange stays in one place, and its answer reaches its caller.
LEMMA AnswerStep == IInv /\ [Next]_vars => OneAnswer'
<1> SUFFICES ASSUME IInv, [Next]_vars PROVE OneAnswer'
  OBVIOUS
<1> USE DEF IInv, OneAnswer, Sent, Taken, Answered, Held, Waiting, statics, caller, lineVars, ppcRegs, armVars, outside
<1>1. CASE Initialize
  BY <1>1, WindowsStay DEF Initialize, PositionsAgree
<1>2. CASE Exchange
  BY <1>2, WindowsStay DEF Exchange
<1>3. CASE Post
  BY <1>3, WindowsStay DEF Post
<1>4. CASE WriteSlot
  BY <1>4, WindowsStay DEF WriteSlot
<1>5. CASE SyncSlot
  <2>1. in_tail \notin Requests
    BY <1>5 DEF SyncSlot, PositionsAgree, TypeOK, Requests, InWindow, InIndex
  <2>2. Requests' = Requests /\ \A i \in Requests : in_queue'[i] = in_queue[i]
    BY <1>5, <2>1, WindowsStay DEF SyncSlot, TypeOK, Requests
  <2>3. Replies' = Replies
    BY <1>5, WindowsStay DEF SyncSlot
  <2> QED
    BY <1>5, <2>2, <2>3 DEF SyncSlot
<1>6. CASE PokeInTail
  <2>1. /\ Requests' = Requests \cup {in_tail} /\ Replies' = Replies
        /\ in_queue[in_tail] = call
    BY <1>6, PokeWindow DEF PokeInTail, PositionsAgree, RequestsStored
  <2> QED
    BY <1>6, <2>1, CodeAssumption DEF PokeInTail, Asked
<1>7. CASE SyncReply
  BY <1>7, WindowsStay DEF SyncReply
<1>8. CASE CopyReply
  <2>1. req_recv' = out_queue[out_head]
    BY <1>8 DEF CopyReply, RepliesOrdered, LoadReply
  <2>2. out_head \in Replies /\ Replies' = Replies \ {out_head} /\ Requests' = Requests
    BY <1>8, CopyWindow DEF CopyReply, PositionsAgree, RepliesOrdered
  <2> QED
    BY <1>8, <2>1, <2>2 DEF CopyReply
<1>9. CASE Unhandled
  BY <1>9, WindowsStay DEF Unhandled, Matches
<1>10. CASE Return
  <2>1. Held
    BY <1>10, ReplyOwn DEF Return, Matches, Asked, CallMade
  <2> QED
    BY <1>10, <2>1, WindowsStay DEF Return
<1>11. CASE Shutdown
  BY <1>11, WindowsStay DEF Shutdown
<1>12. CASE Flush
  BY <1>12, WindowsStay DEF Flush
<1>13. CASE ArmTake
  <2>1. arm_inhead \in Requests /\ Requests' = Requests \ {arm_inhead} /\ Replies' = Replies
    BY <1>13, TakeWindow
  <2>2. /\ working' \subseteq working \cup {in_queue[arm_inhead]}
        /\ UNCHANGED <<pc, call, req_recv, pinged, in_queue, out_queue>>
    BY <1>13 DEF ArmTake
  <2> QED
    BY <2>1, <2>2
<1>14. CASE ArmReply
  <2>1. PICK m \in working : /\ out_queue' = [out_queue EXCEPT ![arm_outtail] = m]
                             /\ working' = working \ {m}
                             /\ UNCHANGED <<pc, call, req_recv, pinged, in_queue>>
    BY <1>14 DEF ArmReply
  <2>2. /\ Replies' = Replies \cup {arm_outtail} /\ arm_outtail \notin Replies
        /\ Requests' = Requests
    BY <1>14, ReplyWindow
  <2>3. /\ out_queue'[arm_outtail] = m
        /\ \A i \in Replies : out_queue'[i] = out_queue[i]
    BY <2>1, <2>2 DEF TypeOK, Replies
  <2> QED
    BY <2>1, <2>2, <2>3
<1>15. CASE UNCHANGED vars
  BY <1>15, WindowsStay DEF vars
<1> QED
  BY <1>1, <1>2, <1>3, <1>4, <1>5, <1>6, <1>7, <1>8, <1>9, <1>10, <1>11,
     <1>12, <1>13, <1>14, <1>15 DEF Next, Ppc

-----------------------------------------------------------------------------
(* The results. *)

\* The invariant holds in every state of every execution.
THEOREM Invariance == Spec => []IInv
<1>1. IInv /\ [Next]_vars => IInv'
  BY TypeStep, PositionsStep, CallStep, StoredStep, OrderedStep, AnswerStep DEF IInv
<1> QED
  BY InitIInv, <1>1, PTL DEF Spec

\* Every ring position stays inside its ring, every slot holds a message.
THEOREM TypeCorrect == Spec => []TypeOK
<1>1. IInv => TypeOK
  BY DEF IInv
<1> QED
  BY Invariance, <1>1, PTL

\* Whatever the ring sizes, the ARM only ever finds whole requests between
\* inhead and in_tail: ipc_vpost publishes a slot after it is in memory.
THEOREM RequestsAreIntact == Spec => []RequestsIntact
<1>1. IInv => RequestsIntact
  BY DEF IInv, RequestsStored
<1> QED
  BY Invariance, <1>1, PTL

\* ipc_slowping leaves no reply of an earlier program in out_queue.
THEOREM PingDrains == Spec => []SlowPingDrains
<1>1. IInv => SlowPingDrains
  BY DEF IInv, RepliesOrdered
<1> QED
  BY Invariance, <1>1, PTL

\* Whatever the ring sizes, the number of tags and the order in which MINI
\* answers, ipc_exchange returns the answer to its own request.
THEOREM ExchangeReturnsItsReply == Spec => []ReplyIsMine
<1>1. IInv => ReplyIsMine
  BY DEF IInv, OneAnswer, ReplyIsMine
<1> QED
  BY Invariance, <1>1, PTL

\* After ipc_shutdown no request of this program is left for MINI, whatever the
\* size of in_queue: ipc_flush has seen the ARM's position reach in_tail, and
\* ipc_vpost posts nothing while the module is closed.
THEOREM ShutdownDrains == Spec => []ShutdownLeavesNothing
<1> DEFINE Closed == IInv /\ ShutdownLeavesNothing
<1>1. Init => Closed
  BY InitIInv DEF Init, ShutdownLeavesNothing
<1>2. Closed /\ [Next]_vars => Closed'
  <2> SUFFICES ASSUME IInv, ShutdownLeavesNothing, [Next]_vars
               PROVE  ShutdownLeavesNothing'
    BY TypeStep, PositionsStep, CallStep, StoredStep, OrderedStep, AnswerStep DEF IInv
  <2> USE DEF ShutdownLeavesNothing, statics, caller, lineVars, ppcRegs, armVars, outside
  <2>1. CASE Flush
    <3>1. arm_inhead = ppc_intail /\ UNCHANGED <<arm_inhead, ppc_intail>>
      BY <2>1 DEF Flush, IInv, PositionsAgree
    <3>2. \A i \in InIndex : ~InWindow(i, arm_inhead, arm_inhead)
      BY DEF InWindow, InIndex, IInv, TypeOK
    <3> QED
      BY <3>1, <3>2 DEF Requests
  <2>2. CASE ArmTake
    BY <2>2, TakeWindow DEF ArmTake, IInv
  <2>3. CASE Return
    BY <2>3, WindowsStay DEF Return, IInv, PositionsAgree, CallMade, RepliesOrdered
  <2>4. CASE UNCHANGED vars
    BY <2>4, WindowsStay DEF vars
  <2>5. CASE ArmReply
    BY <2>5, WindowsStay DEF ArmReply
  <2>6. CASE PokeInTail
    BY <2>6 DEF PokeInTail, IInv, PositionsAgree
  <2>7. CASE Initialize \/ Exchange \/ Post \/ WriteSlot \/ SyncSlot \/ SyncReply
             \/ CopyReply \/ Unhandled \/ Shutdown
    BY <2>7, WindowsStay DEF Initialize, Exchange, Post, WriteSlot, SyncSlot,
       SyncReply, CopyReply, Unhandled, Shutdown
  <2> QED
    BY <2>1, <2>2, <2>3, <2>4, <2>5, <2>6, <2>7 DEF Next, Ppc
<1>3. Closed => ShutdownLeavesNothing
  OBVIOUS
<1> QED
  BY <1>1, <1>2, <1>3, PTL DEF Spec

-----------------------------------------------------------------------------
(* The rings as queues. *)

\* x reduced to a ring of n slots.
Turn(n, x) == IF x < 0 THEN x + n ELSE IF x < n THEN x ELSE x - n

\* A position is reduced to the ring by at most one turn, either way.
LEMMA Reduce ==
    ASSUME NEW n \in Nat, n >= 2, NEW x \in Int, 0 - n < x, x < n + n
    PROVE  x % n = Turn(n, x) /\ Turn(n, x) \in 0 .. n - 1
<1>1. CASE x < 0
  BY <1>1 DEF Turn
<1>2. CASE 0 <= x /\ x < n
  BY <1>2 DEF Turn
<1>3. CASE n <= x
  BY <1>3 DEF Turn
<1> QED
  BY <1>1, <1>2, <1>3

\* The length of a ring's queue, and the slot of its k-th message.
LEMMA RingIs ==
    ASSUME NEW n \in Nat, n >= 2, NEW h \in 0 .. n - 1, NEW t \in 0 .. n - 1, NEW q
    PROVE  /\ RingSeq(q, n, h, t) = [k \in 1 .. Turn(n, t - h) |-> q[Turn(n, h + k - 1)]]
           /\ Turn(n, t - h) \in 0 .. n - 1
           /\ \A k \in 1 .. Turn(n, t - h) :
                 Turn(n, h + k - 1) \in 0 .. n - 1 /\ InWindow(Turn(n, h + k - 1), h, t)
<1>1. (t - h) % n = Turn(n, t - h) /\ Turn(n, t - h) \in 0 .. n - 1
  <2>1. t - h \in Int /\ 0 - n < t - h /\ t - h < n + n
    OBVIOUS
  <2> DEFINE x == t - h
  <2> HIDE DEF x
  <2>2. x % n = Turn(n, x) /\ Turn(n, x) \in 0 .. n - 1
    BY <2>1, Reduce DEF x
  <2> QED
    BY <2>2 DEF x
<1>2. ASSUME NEW k \in 1 .. Turn(n, t - h)
      PROVE  (h + k - 1) % n = Turn(n, h + k - 1)
  <2>1. h + k - 1 \in Int /\ 0 - n < h + k - 1 /\ h + k - 1 < n + n
    BY <1>1
  <2> DEFINE x == h + k - 1
  <2> HIDE DEF x
  <2>2. x % n = Turn(n, x) /\ Turn(n, x) \in 0 .. n - 1
    BY <2>1, Reduce DEF x
  <2> QED
    BY <2>2 DEF x
<1>3. ASSUME NEW k \in 1 .. Turn(n, t - h)
      PROVE  Turn(n, h + k - 1) \in 0 .. n - 1 /\ InWindow(Turn(n, h + k - 1), h, t)
  BY <1>1 DEF Turn, InWindow
<1> QED
  BY <1>1, <1>2, <1>3 DEF RingSeq

\* The slots from h up to t hold members of S; they are the same in two rings;
\* u is the position behind t.
Filled(q, n, h, t, S) == \A i \in 0 .. n - 1 : InWindow(i, h, t) => q[i] \in S
Alike(q, r, n, h, t) == \A i \in 0 .. n - 1 : InWindow(i, h, t) => r[i] = q[i]
Follows(u, t, n) == u = IF t = n - 1 THEN 0 ELSE t + 1

\* The queue depends on the slots of the window alone.
LEMMA RingStays ==
    ASSUME NEW n \in Nat, n >= 2, NEW h \in 0 .. n - 1, NEW t \in 0 .. n - 1, NEW q, NEW r,
           Alike(q, r, n, h, t)
    PROVE  RingSeq(r, n, h, t) = RingSeq(q, n, h, t)
<1>1. RingSeq(q, n, h, t) = [k \in 1 .. Turn(n, t - h) |-> q[Turn(n, h + k - 1)]]
  BY RingIs
<1>2. RingSeq(r, n, h, t) = [k \in 1 .. Turn(n, t - h) |-> r[Turn(n, h + k - 1)]]
  BY RingIs
<1>3. \A k \in 1 .. Turn(n, t - h) : r[Turn(n, h + k - 1)] = q[Turn(n, h + k - 1)]
  BY RingIs DEF Alike
<1> QED
  BY <1>1, <1>2, <1>3

\* It is a sequence, empty when head and tail meet.
LEMMA RingLength ==
    ASSUME NEW n \in Nat, n >= 2, NEW h \in 0 .. n - 1, NEW t \in 0 .. n - 1, NEW q, NEW S,
           Filled(q, n, h, t, S)
    PROVE  /\ RingSeq(q, n, h, t) \in Seq(S)
           /\ Len(RingSeq(q, n, h, t)) = Turn(n, t - h)
           /\ RingSeq(q, n, h, t) = <<>> <=> h = t
<1> DEFINE s == RingSeq(q, n, h, t)
           d == Turn(n, t - h)
<1>1. s = [k \in 1 .. d |-> q[Turn(n, h + k - 1)]]
  BY RingIs
<1>2. d \in 0 .. n - 1
  BY RingIs
<1>3. \A k \in 1 .. d : q[Turn(n, h + k - 1)] \in S
  BY RingIs DEF Filled
<1>4. d = 0 <=> h = t
  BY DEF Turn
<1> HIDE DEF d, s
<1>5. s \in [1 .. d -> S]
  BY <1>1, <1>3
<1>6. s \in Seq(S) /\ Len(s) = d
  BY <1>2, <1>5
<1>7. s = <<>> <=> d = 0
  BY <1>2, <1>6
<1> QED
  BY <1>4, <1>6, <1>7 DEF d, s

\* Filling the slot at the tail and moving the tail on appends.
LEMMA RingAppend ==
    ASSUME NEW n \in Nat, n >= 2, NEW h \in 0 .. n - 1, NEW t \in 0 .. n - 1,
           NEW u \in 0 .. n - 1, NEW q, NEW r, NEW S,
           Follows(u, t, n), u # h,
           Filled(q, n, h, t, S), Alike(q, r, n, h, t)
    PROVE  /\ RingSeq(r, n, h, u) = Append(RingSeq(q, n, h, t), r[t])
           /\ Len(RingSeq(q, n, h, t)) < n - 1
<1> DEFINE d == Turn(n, t - h)
           s == RingSeq(q, n, h, t)
<1>1. Turn(n, u - h) = d + 1 /\ Turn(n, h + d) = t /\ d < n - 1
  BY DEF Turn, Follows
<1>2. RingSeq(r, n, h, u) = [k \in 1 .. Turn(n, u - h) |-> r[Turn(n, h + k - 1)]]
  BY RingIs
<1>3. s = [k \in 1 .. d |-> q[Turn(n, h + k - 1)]]
  BY RingIs
<1>4. d \in 0 .. n - 1
  BY RingIs
<1>5. \A k \in 1 .. d : r[Turn(n, h + k - 1)] = q[Turn(n, h + k - 1)]
  BY RingIs DEF Alike
<1>6. s \in Seq(S) /\ Len(s) = d
  BY RingLength
<1> HIDE DEF d, s
<1>7. Append(s, r[t]) = [k \in 1 .. d + 1 |-> IF k = d + 1 THEN r[t] ELSE s[k]]
  BY <1>4, <1>6
<1>8. \A k \in 1 .. d + 1 : r[Turn(n, h + k - 1)] = IF k = d + 1 THEN r[t] ELSE s[k]
  <2> TAKE k \in 1 .. d + 1
  <2>1. CASE k = d + 1
    <3>1. h + k - 1 = h + d
      BY <2>1, <1>4
    <3> QED
      BY <2>1, <3>1, <1>1
  <2>2. CASE k # d + 1
    <3>1. k \in 1 .. d
      BY <2>2, <1>4
    <3> QED
      BY <2>2, <3>1, <1>3, <1>5
  <2> QED
    BY <2>1, <2>2
<1>9. RingSeq(r, n, h, u) = [k \in 1 .. d + 1 |-> r[Turn(n, h + k - 1)]]
  BY <1>1, <1>2
<1> QED
  BY <1>1, <1>6, <1>7, <1>8, <1>9 DEF s

\* The tail of a sequence, by its places.
LEMMA TailIs ==
    ASSUME NEW S, NEW s \in Seq(S), NEW d \in Nat, d # 0, Len(s) = d
    PROVE  Tail(s) = [k \in 1 .. d - 1 |-> s[k + 1]]
<1> DEFINE r == Tail(s)
<1>1. r \in Seq(S) /\ Len(r) = d - 1 /\ \A i \in 1 .. d - 1 : r[i] = s[i + 1]
  <2>1. s # <<>>
    OBVIOUS
  <2> QED
    BY <2>1, HeadTailProperties
<1> HIDE DEF r
<1>2. r = [i \in 1 .. d - 1 |-> r[i]]
  BY <1>1
<1> QED
  BY <1>1, <1>2 DEF r

\* Moving the head on takes the first message off.
LEMMA RingTake ==
    ASSUME NEW n \in Nat, n >= 2, NEW h \in 0 .. n - 1, NEW t \in 0 .. n - 1,
           NEW g \in 0 .. n - 1, NEW q, NEW S,
           Follows(g, h, n), h # t,
           Filled(q, n, h, t, S)
    PROVE  /\ RingSeq(q, n, h, t) # <<>>
           /\ Head(RingSeq(q, n, h, t)) = q[h]
           /\ RingSeq(q, n, g, t) = Tail(RingSeq(q, n, h, t))
<1> DEFINE d == Turn(n, t - h)
           s == RingSeq(q, n, h, t)
<1>1. Turn(n, t - g) = d - 1 /\ Turn(n, h) = h /\ d \in 1 .. n - 1
  BY DEF Turn, Follows
<1>2. RingSeq(q, n, g, t) = [k \in 1 .. Turn(n, t - g) |-> q[Turn(n, g + k - 1)]]
  BY RingIs
<1>3. s = [k \in 1 .. d |-> q[Turn(n, h + k - 1)]]
  BY RingIs
<1>4. s \in Seq(S) /\ Len(s) = d
  BY RingLength
<1>5. \A k \in 1 .. d - 1 : Turn(n, g + k - 1) = Turn(n, h + (k + 1) - 1)
  BY DEF Turn, Follows
<1> HIDE DEF d, s
<1>6. Head(s) = q[h]
  <2>1. h + 1 - 1 = h
    OBVIOUS
  <2>2. s[1] = q[h]
    BY <1>1, <1>3, <2>1
  <2> QED
    BY <1>1, <1>4, <2>2
<1>7. Tail(s) = [k \in 1 .. d - 1 |-> s[k + 1]]
  BY <1>1, <1>4, TailIs
<1>8. \A k \in 1 .. d - 1 : s[k + 1] = q[Turn(n, g + k - 1)]
  BY <1>1, <1>3, <1>5
<1>9. s # <<>>
  BY <1>1, <1>4
<1>10. RingSeq(q, n, g, t) = [k \in 1 .. d - 1 |-> q[Turn(n, g + k - 1)]]
  BY <1>1, <1>2
<1> QED
  BY <1>6, <1>7, <1>8, <1>9, <1>10 DEF s

-----------------------------------------------------------------------------
(* ipc.c implements the mailbox. *)

\* The mailbox's queues.
Req == RingSeq(in_queue, InSize, arm_inhead, ppc_intail)
Rep == RingSeq(out_queue, OutSize, ppc_outhead, arm_outtail)

\* Where the invariant holds, the queues are what the ring lemmas ask for.
LEMMA QueuesTrue ==
    ASSUME IInv
    PROVE  /\ InSize \in Nat /\ InSize >= 2 /\ OutSize \in Nat /\ OutSize >= 2
           /\ {arm_inhead, ppc_intail} \subseteq 0 .. InSize - 1
           /\ {ppc_outhead, arm_outtail} \subseteq 0 .. OutSize - 1
           /\ Filled(in_queue, InSize, arm_inhead, ppc_intail, Message)
           /\ Filled(out_queue, OutSize, ppc_outhead, arm_outtail, Message)
BY SizeAssumption DEF IInv, TypeOK, RequestsStored, RequestsIntact, RepliesOrdered,
   InIndex, OutIndex, Requests, Replies, Filled

\* The first state is the mailbox's.
LEMMA InitImplements == Init => Promise!Init
<1> SUFFICES ASSUME Init PROVE Promise!Init
  OBVIOUS
<1>1. Req = <<>>
  BY InitIInv, QueuesTrue, RingLength DEF Req, Init
<1>2. Filled(out_queue, OutSize, ppc_outhead, arm_outtail, Leftover)
  BY DEF Init, Filled, Replies, OutIndex
<1>3. Rep \in UNION {[1 .. n -> Leftover] : n \in 0 .. OutSize - 1}
  <2>1. PICK d \in 0 .. OutSize - 1 : Rep \in [1 .. d -> Leftover]
    <3>1. Rep \in Seq(Leftover) /\ Len(Rep) = Turn(OutSize, arm_outtail - ppc_outhead)
      BY <1>2, InitIInv, QueuesTrue, RingLength DEF Rep
    <3>2. Turn(OutSize, arm_outtail - ppc_outhead) \in 0 .. OutSize - 1
      BY InitIInv, QueuesTrue, RingIs
    <3> QED
      BY <3>1, <3>2
  <2> QED
    BY <2>1
<1> QED
  BY <1>1, <1>3 DEF Init, Promise!Init, CallerOf, Req, Rep

\* A step that moves no end of a ring and stores nothing there leaves its queue.
LEMMA QueuesStay ==
    /\ UNCHANGED <<in_queue, arm_inhead, ppc_intail>> => Req' = Req
    /\ UNCHANGED <<out_queue, ppc_outhead, arm_outtail>> => Rep' = Rep
BY DEF Req, Rep

\* What the caller sees: a step of ipc.c that changes none of it is a stutter.
Seen == <<CallerOf, call, req_recv, initialized, Req, Rep, working>>

\* Filling a slot in_tail points to touches no request that is published.
LEMMA SyncImplements == IInv /\ SyncSlot => UNCHANGED Seen
<1> SUFFICES ASSUME IInv, SyncSlot PROVE UNCHANGED Seen
  OBVIOUS
<1>1. in_tail = ppc_intail /\ in_tail \in InIndex
  BY DEF SyncSlot, IInv, PositionsAgree, TypeOK
<1>2. Alike(in_queue, in_queue', InSize, arm_inhead, ppc_intail)
  BY <1>1 DEF SyncSlot, Alike, InWindow, InIndex, IInv, TypeOK
<1>3. RingSeq(in_queue', InSize, arm_inhead, ppc_intail) = Req
  BY <1>2, QueuesTrue, RingStays DEF Req
<1>4. Req' = Req /\ Rep' = Rep
  BY <1>3, QueuesStay DEF SyncSlot, Req, armVars, ppcRegs
<1> QED
  BY <1>4 DEF SyncSlot, Seen, CallerOf, statics, caller, armVars

\* ipc_vpost's last step sends the request.
LEMMA PokeImplements == IInv /\ PokeInTail => Promise!Send
<1> SUFFICES ASSUME IInv, PokeInTail PROVE Promise!Send
  OBVIOUS
<1>1. in_tail = ppc_intail /\ in_queue[in_tail] = call /\ NextIn(ppc_intail) # arm_inhead
  BY DEF PokeInTail, IInv, PositionsAgree, RequestsStored, InFull
<1>2. /\ NextIn(ppc_intail) \in 0 .. InSize - 1
      /\ Follows(NextIn(ppc_intail), ppc_intail, InSize)
  BY NextInRing DEF Follows, IInv, TypeOK, InIndex
<1>3. Alike(in_queue, in_queue, InSize, arm_inhead, ppc_intail)
  BY DEF Alike
<1>4. /\ RingSeq(in_queue, InSize, arm_inhead, NextIn(ppc_intail)) = Append(Req, in_queue[ppc_intail])
      /\ Len(Req) < InSize - 1
  BY <1>1, <1>2, <1>3, QueuesTrue, RingAppend DEF Req
<1>5. Req' = Append(Req, call) /\ Rep' = Rep
  BY <1>1, <1>4, QueuesStay DEF PokeInTail, Req, armVars
<1> QED
  BY <1>4, <1>5 DEF PokeInTail, Promise!Send, CallerOf, Req, Rep, caller, armVars

\* ipc_receive takes the first reply.
LEMMA CopyImplements == IInv /\ CopyReply => Promise!Take
<1> SUFFICES ASSUME IInv, CopyReply PROVE Promise!Take
  OBVIOUS
<1>1. out_head = ppc_outhead /\ ppc_outhead # arm_outtail /\ req_recv' = out_queue[ppc_outhead]
  BY DEF CopyReply, LoadReply, IInv, PositionsAgree, RepliesOrdered
<1>2. /\ NextOut(ppc_outhead) \in 0 .. OutSize - 1
      /\ Follows(NextOut(ppc_outhead), ppc_outhead, OutSize)
  BY NextInRing DEF Follows, IInv, TypeOK, OutIndex
<1>3. /\ Rep # <<>> /\ Head(Rep) = out_queue[ppc_outhead]
      /\ RingSeq(out_queue, OutSize, NextOut(ppc_outhead), arm_outtail) = Tail(Rep)
  BY <1>1, <1>2, QueuesTrue, RingTake DEF Rep
<1>4. Rep' = Tail(Rep) /\ Req' = Req
  BY <1>1, <1>3, QueuesStay DEF CopyReply, Rep, armVars
<1> QED
  BY <1>1, <1>3, <1>4 DEF CopyReply, Promise!Take, CallerOf, Req, Rep, armVars

\* ipc_flush leaves only when every request has been taken.
LEMMA FlushImplements == IInv /\ Flush => Promise!Close
<1> SUFFICES ASSUME IInv, Flush PROVE Promise!Close
  OBVIOUS
<1>1. Req = <<>> /\ initialized
  BY QueuesTrue, RingLength DEF Flush, Req, IInv, PositionsAgree
<1>2. Req' = Req /\ Rep' = Rep
  BY QueuesStay DEF Flush, outside, ppcRegs, armVars
<1> QED
  BY <1>1, <1>2 DEF Flush, Promise!Close, CallerOf, Req, Rep, caller, outside, armVars

\* MINI takes the first request.
LEMMA TakeImplements == IInv /\ ArmTake => Promise!Serve
<1> SUFFICES ASSUME IInv, ArmTake PROVE Promise!Serve
  OBVIOUS
<1>1. /\ NextIn(arm_inhead) \in 0 .. InSize - 1
      /\ Follows(NextIn(arm_inhead), arm_inhead, InSize)
  BY NextInRing DEF Follows, IInv, TypeOK, InIndex
<1>2. /\ Req # <<>> /\ Head(Req) = in_queue[arm_inhead]
      /\ RingSeq(in_queue, InSize, NextIn(arm_inhead), ppc_intail) = Tail(Req)
  BY <1>1, QueuesTrue, RingTake DEF Req, ArmTake
<1>3. Req' = Tail(Req) /\ Rep' = Rep
  BY <1>2, QueuesStay DEF ArmTake, Req, ppcRegs
<1>4. in_queue[arm_inhead] \in Message
  BY TakeWindow DEF IInv, RequestsStored, RequestsIntact
<1>5. /\ Cardinality(working) < Backlog
      /\ \/ /\ in_queue[arm_inhead].code \in ExchangeCodes \/ AnswersPosts
            /\ working' = working \cup {in_queue[arm_inhead]}
         \/ in_queue[arm_inhead].code \in PostCodes /\ UNCHANGED working
      /\ UNCHANGED <<pc, call, req_recv, initialized>>
  <2>1. in_queue[arm_inhead].code \in ExchangeCodes \cup PostCodes
    BY <1>4 DEF Message
  <2> QED
    BY <2>1 DEF ArmTake, statics, caller
<1>6. CallerOf' = CallerOf
  BY <1>5 DEF CallerOf
<1>7. /\ \/ /\ Head(Req).code \in ExchangeCodes \/ AnswersPosts
            /\ working' = working \cup {Head(Req)}
         \/ Head(Req).code \in PostCodes /\ UNCHANGED working
      /\ UNCHANGED <<CallerOf, call, req_recv, initialized, Rep>>
  BY <1>2, <1>3, <1>5, <1>6
<1>8. Promise!Cardinality(working) = Cardinality(working)
  BY DEF Cardinality, Promise!Cardinality
<1> QED
  BY <1>2, <1>3, <1>5, <1>7, <1>8 DEF Promise!Serve, Req, Rep

\* MINI's replies join the end of the queue.
LEMMA ReplyImplements == IInv /\ ArmReply => Promise!Answer
<1> SUFFICES ASSUME IInv, ArmReply PROVE Promise!Answer
  OBVIOUS
<1>1. PICK m \in working : /\ out_queue' = [out_queue EXCEPT ![arm_outtail] = m]
                           /\ working' = working \ {m}
  BY DEF ArmReply
<1>2. /\ NextOut(arm_outtail) \in 0 .. OutSize - 1 /\ NextOut(arm_outtail) # ppc_outhead
      /\ Follows(NextOut(arm_outtail), arm_outtail, OutSize)
  BY NextInRing DEF ArmReply, OutFull, Follows, IInv, TypeOK, OutIndex
<1>3. /\ Alike(out_queue, out_queue', OutSize, ppc_outhead, arm_outtail)
      /\ out_queue'[arm_outtail] = m
  BY <1>1 DEF Alike, InWindow, OutIndex, IInv, TypeOK
<1>4. /\ RingSeq(out_queue', OutSize, ppc_outhead, NextOut(arm_outtail)) = Append(Rep, m)
      /\ Len(Rep) < OutSize - 1
  BY <1>2, <1>3, QueuesTrue, RingAppend DEF Rep
<1>5. Rep' = Append(Rep, m) /\ Req' = Req
  BY <1>4, QueuesStay DEF ArmReply, Rep, ppcRegs
<1> QED
  BY <1>1, <1>4, <1>5 DEF ArmReply, Promise!Answer, CallerOf, Req, Rep, statics, caller

\* The steps that leave both rings alone.
LEMMA CallerImplements ==
    ASSUME IInv, UNCHANGED <<Req, Rep>>
    PROVE  /\ Initialize => Promise!Open \/ UNCHANGED Seen
           /\ Exchange \/ Post => Promise!Begin
           /\ Unhandled => Promise!Drop
           /\ Return => Promise!Keep
           /\ WriteSlot \/ SyncReply \/ Shutdown \/ UNCHANGED vars => UNCHANGED Seen
<1> USE DEF Seen, CallerOf, Req, Rep, statics, caller, outside, armVars
<1>1. Initialize => Promise!Open \/ UNCHANGED Seen
  BY DEF Initialize, Promise!Open, IInv, PositionsAgree
<1>2. Exchange => Promise!Begin
  <2> SUFFICES ASSUME Exchange PROVE Promise!Begin
    OBVIOUS
  <2>1. call' \in Promise!Request
    BY DEF Exchange, Promise!Request, IInv, TypeOK
  <2> QED
    BY <2>1 DEF Exchange, Promise!Begin
<1>3. Post => Promise!Begin
  <2> SUFFICES ASSUME Post PROVE Promise!Begin
    OBVIOUS
  <2>1. call' \in Promise!Request
    BY SizeAssumption DEF Post, Promise!Request, Tags
  <2> QED
    BY <2>1 DEF Post, Promise!Begin
<1>4. Unhandled => Promise!Drop
  BY DEF Unhandled, Matches, Promise!Drop, Promise!Mine
<1>5. Return => Promise!Keep
  BY DEF Return, Matches, Promise!Keep, Promise!Mine
<1>6. WriteSlot \/ SyncReply \/ Shutdown \/ UNCHANGED vars => UNCHANGED Seen
  BY DEF WriteSlot, SyncReply, Shutdown, vars
<1> QED
  BY <1>1, <1>2, <1>3, <1>4, <1>5, <1>6

\* Every step of the rings is a step of the mailbox, or one its users do not see.
LEMMA StepImplements == IInv /\ [Next]_vars => [Promise!Next]_(Promise!vars)
<1> SUFFICES ASSUME IInv, [Next]_vars PROVE Promise!Next \/ UNCHANGED Seen
  BY DEF Seen, Req, Rep, Promise!vars
<1>1. CASE Initialize \/ Exchange \/ Post \/ Unhandled \/ Return
              \/ WriteSlot \/ SyncReply \/ Shutdown \/ UNCHANGED vars
  <2>1. UNCHANGED <<Req, Rep>>
    BY <1>1, QueuesStay DEF Initialize, Exchange, Post, Unhandled, Return, WriteSlot,
       SyncReply, Shutdown, vars, outside, ppcRegs, armVars
  <2> QED
    BY <1>1, <2>1, CallerImplements DEF Promise!Next
<1>2. CASE SyncSlot
  BY <1>2, SyncImplements
<1>3. CASE PokeInTail
  BY <1>3, PokeImplements DEF Promise!Next
<1>4. CASE CopyReply
  BY <1>4, CopyImplements DEF Promise!Next
<1>5. CASE Flush
  BY <1>5, FlushImplements DEF Promise!Next
<1>6. CASE ArmTake
  BY <1>6, TakeImplements DEF Promise!Next
<1>7. CASE ArmReply
  BY <1>7, ReplyImplements DEF Promise!Next
<1> QED
  BY <1>1, <1>2, <1>3, <1>4, <1>5, <1>6, <1>7 DEF Next, Ppc

\* ipc.c implements its promise, whatever the sizes of the rings: no request or
\* reply is lost, repeated, reordered or torn between the two processors.
THEOREM RingsAreMailbox == Spec => ImplementsMailbox
<1> QED
  BY Invariance, InitImplements, StepImplements, PTL DEF Spec, ImplementsMailbox, Promise!Spec
=============================================================================
