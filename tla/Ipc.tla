-------------------------------- MODULE Ipc --------------------------------
(***************************************************************************)
(* The mailbox between the PowerPC, which runs wiiMac, and the ARM, which  *)
(* runs MINI (ipc.c, ipc.h).  Two rings of 32-byte slots live in memory    *)
(* both processors see: in_queue carries requests to the ARM, out_queue    *)
(* carries replies back.  Each processor publishes its two ring positions  *)
(* in a hardware register that only it writes: HW_IPC_PPCMSG holds in_tail *)
(* and out_head, HW_IPC_ARMMSG holds the ARM's inhead and outtail.  The    *)
(* memory is not coherent: the PowerPC's stores stay in its data cache     *)
(* until sync_after_write, and its loads may hit an old line unless        *)
(* sync_before_read dropped it.                                            *)
(*                                                                         *)
(* Every loop that spins on a register is an action whose guard is the     *)
(* loop's exit condition.  Request and reply arguments are one value: the  *)
(* answer to a request carries the request's own arguments, so "this is    *)
(* the answer to that request" is equality of records.                     *)
(***************************************************************************)
EXTENDS Integers, Sequences, FiniteSets

CONSTANTS
    InSize, OutSize,   \* slots of the two rings (infohdr->ipc_in_size, ipc_out_size)
    ExchangeCodes,     \* request codes sent with ipc_exchange: they are answered
    PostCodes,         \* request codes sent with ipc_post, under tag 0
    SlowPing,          \* IPC_SYS_SLWPING, the first exchange main makes
    Args,              \* argument values
    Old,               \* the arguments of a reply an earlier program never read
    NoMsg,             \* no message: an unused slot, an empty cache line
    TagMod,            \* tags are u32: 2^32 of them
    Backlog,           \* requests the ARM works on at a time
    AnswersPosts,      \* may the ARM answer a post as well?
    MayShutDown,       \* may the caller use ipc_shutdown?
    Headers            \* may the info header be good (TRUE), bad (FALSE), either?

ASSUME SizeAssumption ==
    /\ InSize \in Nat /\ InSize >= 2
    /\ OutSize \in Nat /\ OutSize >= 2
    /\ TagMod \in Nat /\ TagMod >= 2
    /\ Backlog \in Nat \ {0}

ASSUME CodeAssumption ==
    /\ SlowPing \in ExchangeCodes
    /\ ExchangeCodes \cap PostCodes = {}
    /\ Old \notin Args
    /\ AnswersPosts \in BOOLEAN /\ MayShutDown \in BOOLEAN
    /\ Headers \subseteq BOOLEAN

InIndex  == 0 .. InSize - 1
OutIndex == 0 .. OutSize - 1
Tags     == 0 .. TagMod - 1
Message  == [code : ExchangeCodes \cup PostCodes, tag : Tags, args : Args \cup {Old}]

\* What may be left in out_queue by the program that ran before: anything but
\* an answer to the very first exchange, a slow ping under tag 1.
Leftover == {m \in [code : ExchangeCodes, tag : Tags, args : {Old}] :
                m.code # SlowPing \/ m.tag # 1}

ASSUME MessageAssumption == NoMsg \notin Message

VARIABLES
    \* the PowerPC program
    pc,           \* where the caller is in ipc.c
    initialized,  \* static int initialized
    in_tail,      \* static u16 in_tail
    out_head,     \* static u16 out_head
    cur_tag,      \* static u32 cur_tag
    call,         \* arguments of the ipc_vpost in progress, or of the last one
    req_recv,     \* ipc_request req_recv, the last message received
    pinged,       \* main's first exchange, ipc_slowping, has returned
    \* its data cache
    in_line,      \* the line of in_queue[in_tail] that memory does not have yet
    out_line,     \* the lines of out_queue it holds
    \* shared memory and registers
    in_queue, out_queue,
    ppc_intail, ppc_outhead,    \* HW_IPC_PPCMSG
    arm_inhead, arm_outtail,    \* HW_IPC_ARMMSG
    \* MINI
    header_ok,    \* the info header has the right magic and version
    working       \* requests taken and not answered yet

statics  == <<initialized, in_tail, out_head, cur_tag>>
caller   == <<call, req_recv, pinged>>
lineVars == <<in_line, out_line>>
ppcRegs  == <<ppc_intail, ppc_outhead>>
armVars  == <<arm_inhead, arm_outtail, working, header_ok>>
outside  == <<in_queue, out_queue, ppcRegs, armVars>>
vars     == <<pc, statics, caller, lineVars, outside>>

-----------------------------------------------------------------------------
\* Ring positions: (i + 1) & (size - 1), the sizes being powers of two.
\* (A definition marked "mistake" is a plausible error in the code; the
\* specification does not use it.)
NextIn(i)  == (i + 1) % InSize
NextOut(i) == (i + 1) % OutSize

\* Is slot i between head h (included) and tail t (excluded)?
InWindow(i, h, t) == IF h <= t THEN h <= i /\ i < t ELSE i >= h \/ i < t

Requests == {i \in InIndex : InWindow(i, arm_inhead, ppc_intail)}
Replies  == {i \in OutIndex : InWindow(i, ppc_outhead, arm_outtail)}

InFullIgnored == FALSE                                          \* mistake
InFull  == arm_inhead = NextIn(in_tail)
OutFull == ppc_outhead = NextOut(arm_outtail)

-----------------------------------------------------------------------------
\* MINI has been running: its ring positions are anywhere, no request is
\* pending, and replies may be waiting that nobody read.  Without MINI there
\* is no valid header and nothing moves.
Init ==
    /\ pc = "boot" /\ initialized = FALSE /\ pinged = FALSE
    /\ in_tail = 0 /\ out_head = 0 /\ cur_tag = 0
    /\ call = NoMsg /\ req_recv = NoMsg
    /\ in_line = NoMsg /\ out_line = [i \in OutIndex |-> NoMsg]
    /\ in_queue = [i \in InIndex |-> NoMsg]
    /\ ppc_intail \in InIndex /\ arm_inhead = ppc_intail
    /\ ppc_outhead \in OutIndex /\ arm_outtail \in OutIndex
    /\ out_queue \in [OutIndex -> Leftover \cup {NoMsg}]
    /\ \A i \in OutIndex : (out_queue[i] # NoMsg) <=> (i \in Replies)
    /\ header_ok \in Headers
    /\ ~header_ok => arm_outtail = 0 /\ ppc_outhead = 0
    /\ working = {}

\* ipc_initialize: nothing is set when the header is bad, and main goes on.
Initialize ==
    /\ pc = "boot" \/ (pc = "idle" /\ ~initialized)
    /\ pc' = "idle"
    /\ IF header_ok
       THEN /\ in_tail' = ppc_intail /\ out_head' = ppc_outhead
            /\ cur_tag' = 1 /\ initialized' = TRUE
       ELSE UNCHANGED statics
    /\ UNCHANGED <<caller, lineVars, outside>>

\* ipc_exchange up to its ipc_vpost, which returns at once when the module is
\* not initialized; ipc_receive_tagged follows all the same.
Exchange ==
    \E c \in ExchangeCodes, a \in Args :
        /\ pc = "idle"
        /\ pinged \/ c = SlowPing
        /\ call' = [code |-> c, tag |-> cur_tag, args |-> a]
        /\ pc' = IF initialized THEN "post" ELSE "receive"
        /\ UNCHANGED <<statics, req_recv, pinged, lineVars, outside>>

\* ipc_post, as ipc_sys_write32 and its kin use it.
Post ==
    \E c \in PostCodes, a \in Args :
        /\ pc = "idle" /\ pinged /\ initialized
        /\ call' = [code |-> c, tag |-> 0, args |-> a]
        /\ pc' = "post"
        /\ UNCHANGED <<statics, req_recv, pinged, lineVars, outside>>

\* mistake: the slot is never synced
WriteSlotUnsynced ==
    /\ pc = "post" /\ ~InFull
    /\ in_line' = call
    /\ pc' = "poke"
    /\ UNCHANGED <<statics, caller, out_line, outside>>

\* ipc_vpost waits for a free slot and fills it: in the data cache.
WriteSlot ==
    /\ pc = "post" /\ ~InFull
    /\ in_line' = call
    /\ pc' = "sync"
    /\ UNCHANGED <<statics, caller, out_line, outside>>

\* sync_after_write(&in_queue[in_tail], 32)
SyncSlot ==
    /\ pc = "sync"
    /\ in_queue' = [in_queue EXCEPT ![in_tail] = in_line]
    /\ in_line' = NoMsg
    /\ pc' = "poke"
    /\ UNCHANGED <<statics, caller, out_line, out_queue, ppcRegs, armVars>>

\* in_tail advances and is published; the caller of ipc_exchange then receives.
PokeInTail ==
    /\ pc = "poke"
    /\ in_tail' = NextIn(in_tail)
    /\ ppc_intail' = NextIn(in_tail)
    /\ pc' = IF call.code \in ExchangeCodes THEN "receive" ELSE "idle"
    /\ UNCHANGED <<initialized, out_head, cur_tag, caller, lineVars, in_queue,
                   out_queue, ppc_outhead, armVars>>

\* mistake: the line is not dropped
SyncReplyForgotten ==
    /\ pc = "receive" /\ arm_outtail # out_head
    /\ pc' = "copy"
    /\ UNCHANGED <<statics, caller, lineVars, outside>>

\* ipc_receive sees a message and drops the line it may hold of that slot.
SyncReply ==
    /\ pc = "receive" /\ arm_outtail # out_head
    /\ out_line' = [out_line EXCEPT ![out_head] = NoMsg]
    /\ pc' = "copy"
    /\ UNCHANGED <<statics, caller, in_line, outside>>

\* A load of out_queue[i], from the cache if the line is there.
LoadReply(i) == IF out_line[i] # NoMsg THEN out_line[i] ELSE out_queue[i]

\* mistake: the slot is not given back to the ARM
CopyReplyKept ==
    /\ pc = "copy"
    /\ req_recv' = LoadReply(out_head)
    /\ out_line' = [out_line EXCEPT ![out_head] = LoadReply(out_head)]
    /\ out_head' = NextOut(out_head)
    /\ pc' = "match"
    /\ UNCHANGED <<initialized, in_tail, cur_tag, call, pinged, in_line, outside>>

\* ipc_receive copies the message and frees its slot.
CopyReply ==
    /\ pc = "copy"
    /\ req_recv' = LoadReply(out_head)
    /\ out_line' = [out_line EXCEPT ![out_head] = LoadReply(out_head)]
    /\ out_head' = NextOut(out_head)
    /\ ppc_outhead' = NextOut(out_head)
    /\ pc' = "match"
    /\ UNCHANGED <<initialized, in_tail, cur_tag, call, pinged, in_line,
                   in_queue, out_queue, ppc_intail, armVars>>

MatchesTag(rep)  == rep.tag = call.tag                            \* mistake
MatchesCode(rep) == rep.code = call.code                          \* mistake
Matches(rep) == rep.code = call.code /\ rep.tag = call.tag

\* ipc_receive_tagged: any other message is reported and forgotten ...
Unhandled ==
    /\ pc = "match" /\ ~Matches(req_recv)
    /\ pc' = "receive"
    /\ UNCHANGED <<statics, caller, lineVars, outside>>

\* ... and the matching one ends the exchange.
Return ==
    /\ pc = "match" /\ Matches(req_recv)
    /\ cur_tag' = (cur_tag + 1) % TagMod
    /\ pinged' = TRUE
    /\ pc' = "idle"
    /\ UNCHANGED <<initialized, in_tail, out_head, call, req_recv, lineVars, outside>>

\* mistake: nothing is waited for
FlushAtOnce ==
    /\ pc = "flush"
    /\ initialized' = FALSE
    /\ pc' = "idle"
    /\ UNCHANGED <<in_tail, out_head, cur_tag, caller, lineVars, outside>>

\* ipc_flush returns once the ARM has taken everything ...
Flush ==
    /\ pc = "flush" /\ arm_inhead = in_tail
    /\ initialized' = FALSE
    /\ pc' = "idle"
    /\ UNCHANGED <<in_tail, out_head, cur_tag, caller, lineVars, outside>>

\* ... which is what ipc_shutdown waits for.
Shutdown ==
    /\ MayShutDown
    /\ pc = "idle" /\ initialized /\ pinged
    /\ pc' = "flush"
    /\ UNCHANGED <<statics, caller, lineVars, outside>>

Ppc == \/ Initialize \/ Exchange \/ Post
       \/ WriteSlot \/ SyncSlot \/ PokeInTail
       \/ SyncReply \/ CopyReply \/ Unhandled \/ Return
       \/ Shutdown \/ Flush

-----------------------------------------------------------------------------
\* MINI takes the next request in ring order.  A request sent with
\* ipc_exchange is kept until it is answered; a post is carried out, and may
\* be answered too.
ArmTake ==
    /\ header_ok
    /\ arm_inhead # ppc_intail
    /\ Cardinality(working) < Backlog
    /\ LET m == in_queue[arm_inhead]
       IN  \/ working' = working \cup {m}
              /\ (m.code \in PostCodes => AnswersPosts)
           \/ m.code \in PostCodes /\ UNCHANGED working
    /\ arm_inhead' = NextIn(arm_inhead)
    /\ UNCHANGED <<pc, statics, caller, lineVars, in_queue, out_queue, ppcRegs,
                   arm_outtail, header_ok>>

\* MINI answers requests in whatever order they complete, when there is room.
ArmReply ==
    \E m \in working :
        /\ header_ok
        /\ ~OutFull
        /\ out_queue' = [out_queue EXCEPT ![arm_outtail] = m]
        /\ arm_outtail' = NextOut(arm_outtail)
        /\ working' = working \ {m}
        /\ UNCHANGED <<pc, statics, caller, lineVars, in_queue, ppcRegs,
                       arm_inhead, header_ok>>

Next == Ppc \/ ArmTake \/ ArmReply

Spec == Init /\ [][Next]_vars

\* The PowerPC runs one program and never yields; MINI serves its queue.
PpcStep  == \/ WriteSlot \/ SyncSlot \/ PokeInTail \/ SyncReply
            \/ CopyReply \/ Unhandled \/ Return \/ Flush
FairSpec == Spec /\ WF_vars(PpcStep) /\ WF_vars(ArmTake) /\ WF_vars(ArmReply)

-----------------------------------------------------------------------------
PcStates == {"boot", "idle", "post", "sync", "poke", "receive", "copy", "match",
             "flush"}

\* Every variable of the mailbox has its type: in particular each ring
\* position, the PowerPC's and the ARM's, stays inside its ring.
TypeOK ==
    /\ pc \in PcStates
    /\ initialized \in BOOLEAN /\ pinged \in BOOLEAN /\ header_ok \in BOOLEAN
    /\ in_tail \in InIndex /\ out_head \in OutIndex
    /\ cur_tag \in Tags
    /\ call \in Message \cup {NoMsg} /\ req_recv \in Message \cup {NoMsg}
    /\ in_line \in Message \cup {NoMsg}
    /\ out_line \in [OutIndex -> Message \cup {NoMsg}]
    /\ in_queue \in [InIndex -> Message \cup {NoMsg}]
    /\ out_queue \in [OutIndex -> Message \cup {NoMsg}]
    /\ ppc_intail \in InIndex /\ arm_inhead \in InIndex
    /\ ppc_outhead \in OutIndex /\ arm_outtail \in OutIndex
    /\ working \subseteq Message

\* The ARM never reads a request that is not there: each slot between inhead
\* and the published in_tail holds, in memory and not only in the PowerPC's
\* cache, a request some caller posted (ipc_vpost stores, syncs, then pokes).
RequestsIntact == \A i \in Requests : in_queue[i] \in Message /\ in_queue[i].args \in Args

\* ipc_exchange returns the answer to its own request and not to another one,
\* whatever was left in out_queue at start, whatever answers to posts arrive
\* in between, however often cur_tag has wrapped around.
ReplyIsMine == (pc = "idle" /\ pinged /\ call.code \in ExchangeCodes) => req_recv = call

\* main's ipc_slowping clears the way: once it has returned, no reply of an
\* earlier program is in out_queue any more.
SlowPingDrains == pinged => \A i \in Replies : out_queue[i].args \in Args

\* After ipc_shutdown nothing of this program waits in in_queue, and nothing
\* is posted again until the next ipc_initialize.
ShutdownLeavesNothing == (pinged /\ ~initialized) => Requests = {}

\* A call that ipc.c accepts comes back, with the ARM serving its queue: a
\* full in_queue empties, and the reply is found behind any others.
CallsReturn == (initialized /\ pc # "idle") ~> (pc = "idle")

-----------------------------------------------------------------------------
(* Why those hold: the invariant that every step preserves.                *)

Own(m)   == m.args \in Args                        \* of this program
Asked(m) == m.code \in ExchangeCodes /\ Own(m)     \* an exchange, or its answer

Calling == pc \in {"post", "sync", "poke", "receive", "copy", "match"}
Waiting == pc \in {"receive", "copy", "match"}

\* The PowerPC's own positions are the published ones, and nothing happens
\* without MINI or before ipc_initialize.
PositionsAgree ==
    /\ initialized => header_ok
    /\ pc \in {"post", "sync", "poke", "flush"} => initialized
    /\ (header_ok /\ pc # "boot") => in_tail = ppc_intail /\ out_head = ppc_outhead
    /\ (header_ok /\ pc # "boot" /\ ~initialized) => pinged
    /\ pc = "flush" => pinged
    /\ pc = "boot" => ~initialized /\ ~pinged /\ working = {} /\ arm_inhead = ppc_intail
    /\ ~header_ok => /\ pc \in {"boot", "idle", "receive"} /\ ~pinged /\ working = {}
                     /\ arm_inhead = ppc_intail
                     /\ out_head = 0 /\ arm_outtail = 0 /\ ppc_outhead = 0

\* The call in progress is this program's; the first one is the slow ping.
CallMade ==
    /\ Calling => call \in Message /\ Own(call)
    /\ Waiting => call.code \in ExchangeCodes
    /\ (~pinged /\ initialized) => cur_tag = 1
    /\ (~pinged /\ initialized /\ Calling) => call.code = SlowPing /\ call.tag = 1

\* A request is in memory before it is published, and stays until it is taken.
RequestsStored ==
    /\ pc \in {"sync", "poke"} => ~InFull
    /\ pc = "sync" => in_line = call
    /\ pc = "poke" => in_queue[in_tail] = call
    /\ RequestsIntact
    /\ \A m \in working : m \in Message /\ Own(m)

\* Replies of an earlier program come before every reply of this one.
RepliesOrdered ==
    /\ \A i \in Replies : /\ out_queue[i] \in Message
                          /\ Own(out_queue[i]) \/ out_queue[i] \in Leftover
    /\ SlowPingDrains
    /\ \A i, j \in Replies :
          InWindow(i, ppc_outhead, j) /\ Own(out_queue[i]) => Own(out_queue[j])
    /\ pc = "copy" => arm_outtail # out_head /\ out_line[out_head] = NoMsg
    /\ pc = "match" => /\ req_recv \in Message
                       /\ Own(req_recv) \/ (req_recv \in Leftover /\ ~pinged)
                       /\ Own(req_recv) => \A i \in Replies : Own(out_queue[i])

\* An exchange is in at most one place on its way to the ARM and back, and it
\* is the one being waited for.
Sent     == \E i \in Requests : Asked(in_queue[i])
Taken    == \E m \in working : Asked(m)
Answered == \E i \in Replies : Asked(out_queue[i])
Held     == pc = "match" /\ Asked(req_recv)

OneAnswer ==
    /\ \A i \in Requests : Asked(in_queue[i]) => Waiting /\ in_queue[i] = call
    /\ \A m \in working : Asked(m) => Waiting /\ m = call
    /\ \A i \in Replies : Asked(out_queue[i]) => Waiting /\ out_queue[i] = call
    /\ Held => req_recv = call
    /\ \A i, j \in Requests : Asked(in_queue[i]) /\ Asked(in_queue[j]) => i = j
    /\ \A i, j \in Replies : Asked(out_queue[i]) /\ Asked(out_queue[j]) => i = j
    /\ Sent => ~Taken /\ ~Answered /\ ~Held
    /\ Taken => ~Answered /\ ~Held
    /\ Answered => ~Held
    /\ (pc \in {"idle", "flush"} /\ pinged /\ call.code \in ExchangeCodes) => req_recv = call

\* All of it together is inductive: the proofs rest on it.
IInv == TypeOK /\ PositionsAgree /\ CallMade /\ RequestsStored /\ RepliesOrdered /\ OneAnswer

-----------------------------------------------------------------------------
(* ipc.c implements the mailbox it promises: the part of each ring between *)
(* its head and its tail, read in ring order, is the mailbox's queue.      *)

\* The messages of ring q, of the given size, from head h up to tail t.
RingSeq(q, size, h, t) == [k \in 1 .. (t - h) % size |-> q[(h + k - 1) % size]]

CallerOf ==
    CASE pc \in {"boot", "idle", "flush"}  -> "idle"
      [] pc \in {"post", "sync", "poke"}   -> "send"
      [] pc \in {"receive", "copy"}        -> "wait"
      [] pc = "match"                      -> "hold"

Promise == INSTANCE Mailbox WITH
    InRoom   <- InSize - 1,
    OutRoom  <- OutSize - 1,
    caller   <- CallerOf,
    hold     <- req_recv,
    open     <- initialized,
    requests <- RingSeq(in_queue, InSize, arm_inhead, ppc_intail),
    replies  <- RingSeq(out_queue, OutSize, ppc_outhead, arm_outtail)

\* Seen through the mapping above, every step of the rings, registers and
\* caches is a step of the mailbox or leaves it alone: no request or reply is
\* lost, repeated, reordered or torn on its way (ipc.c's whole promise).
ImplementsMailbox == Promise!Spec
=============================================================================
