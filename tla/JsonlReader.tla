------------------------------ MODULE JsonlReader ------------------------------
(***************************************************************************)
(* src/claude_pty/jsonl_reader.py, read_new_messages, with the coroutines  *)
(* of session.py that run it in a worker thread under _reader_lock: the    *)
(* consumers (send_prompt and the idle watcher, through                    *)
(* _read_with_prefetch_locked) and the preflight of a steer.               *)
(*                                                                         *)
(* Claude Code appends to the file at any byte.  A byte is its number in   *)
(* the file, and every line has three: the two bytes of one character and  *)
(* a newline, so that the end of the file may lie inside a character,      *)
(* inside a line, or between two lines.                                    *)
(***************************************************************************)
EXTENDS Naturals, Sequences

CONSTANTS
    Consumers,   \* coroutines that read and use what they read
    Preflight,   \* the steer that reads ahead
    None,        \* no coroutine
    Threads,     \* worker threads, one per read that has not finished
    MaxLines,    \* bound: lines in the file
    Env          \* what may happen to a read, see ReadEvents

ReadEvents == {"cancel"}   \* the awaiting coroutine is cancelled

ASSUME ReaderAssumption ==
    /\ Preflight \notin Consumers /\ None \notin Consumers \cup {Preflight}
    /\ MaxLines \in Nat /\ Env \subseteq ReadEvents

Readers == Consumers \cup {Preflight}

VARIABLES
    size,         \* bytes in the file
    offset,       \* JsonlReader._offset
    buffer,       \* JsonlReader._buffer
    lock,         \* who holds Session._reader_lock
    thread,       \* the read in each worker thread
    prefetched,   \* Session._prefetched_messages
    taken,        \* ghost: position up to which records left the reader
    handed,       \* ghost: position up to which consumers got records
    batch,        \* the records a consumer got last
    cut           \* ghost: a read was cut, or failed with prefetched records

file    == <<offset, buffer>>
output  == <<taken, handed, batch>>
readVars == <<size, file, lock, thread, prefetched, output, cut>>

Newline(b) == b % 3 = 0
MidChar(n) == n % 3 = 1          \* a cut after byte n splits a character
Lines(n)   == n \div 3           \* complete lines in the first n bytes
Bytes(lo, hi) == [i \in 1 .. hi - lo |-> lo + i]

Breaks(s)    == {i \in DOMAIN s : Newline(s[i])}
LastBreak(s) == IF Breaks(s) = {} THEN 0
                ELSE CHOOSE i \in Breaks(s) : \A j \in Breaks(s) : j <= i
Rest(s)      == SubSeq(s, LastBreak(s) + 1, Len(s))

(* The records among the complete lines of s.  A line that was glued together
   from pieces of others is no JSON, and json.loads is caught. *)
Records(s) ==
    {s[i] \div 3 : i \in {j \in Breaks(s) :
        /\ j >= 3 /\ s[j - 1] = s[j] - 1 /\ s[j - 2] = s[j] - 2
        /\ j = 3 \/ Newline(s[j - 3])}}

Idle == [pc |-> "idle", owner |-> None, lo |-> 0, hi |-> 0, pre |-> {},
         got |-> {}]

ReadInit ==
    /\ size = 0 /\ offset = 0 /\ buffer = <<>>
    /\ lock = None /\ thread = [t \in Threads |-> Idle]
    /\ prefetched = {} /\ taken = 0 /\ handed = 0 /\ batch = {} /\ cut = FALSE
--------------------------------------------------------------------------------
(* Claude Code.  A line that was begun is finished. *)

Write ==
    /\ size < 3 * MaxLines
    /\ size' = size + 1
    /\ UNCHANGED <<file, lock, thread, prefetched, output, cut>>
--------------------------------------------------------------------------------
(* A coroutine takes the lock and awaits asyncio.to_thread(read_new_messages);
   a consumer takes the prefetched records first. *)

CallUnlocked(r, t) ==   \* mutant: without _reader_lock
    /\ thread[t].pc = "idle"
    /\ lock' = r
    /\ thread' = [thread EXCEPT ![t] =
         [Idle EXCEPT !.pc = "open", !.owner = r]]
    /\ UNCHANGED <<size, file, prefetched, output, cut>>
Call(r, t) ==
    /\ lock = None /\ thread[t].pc = "idle"
    /\ lock' = r
    /\ thread' = [thread EXCEPT ![t] =
         [Idle EXCEPT !.pc = "open", !.owner = r,
                      !.pre = IF r = Preflight THEN {} ELSE prefetched]]
    /\ prefetched' = IF r = Preflight THEN prefetched ELSE {}
    /\ UNCHANGED <<size, file, output, cut>>

(* open, seek and read.  A file that ends inside a character, or an offset
   inside one, raises UnicodeDecodeError before anything is changed. *)
ReadFile(t) ==
    /\ thread[t].pc = "open"
    /\ thread' = [thread EXCEPT ![t] =
         IF size <= offset THEN [@ EXCEPT !.pc = "done"]
         ELSE IF MidChar(offset) \/ MidChar(size) THEN [@ EXCEPT !.pc = "failed"]
         ELSE [@ EXCEPT !.pc = "read", !.lo = offset, !.hi = size]]
    /\ UNCHANGED <<size, file, lock, prefetched, output, cut>>

AdvanceLinesOnly(t) ==   \* mutant: move past the complete lines only
    /\ thread[t].pc = "read"
    /\ offset' = 3 * Lines(thread[t].hi)
    /\ thread' = [thread EXCEPT ![t].pc = "split"]
    /\ UNCHANGED <<size, buffer, lock, prefetched, output, cut>>
Advance(t) ==
    /\ thread[t].pc = "read"
    /\ offset' = offset + (thread[t].hi - thread[t].lo)
    /\ thread' = [thread EXCEPT ![t].pc = "split"]
    /\ UNCHANGED <<size, buffer, lock, prefetched, output, cut>>

Split(t) ==
    LET combined == buffer \o Bytes(thread[t].lo, thread[t].hi)
    IN /\ thread[t].pc = "split"
       /\ buffer' = Rest(combined)
       /\ thread' = [thread EXCEPT ![t].pc = "done", ![t].got = Records(combined)]
       /\ UNCHANGED <<size, offset, lock, prefetched, output, cut>>
--------------------------------------------------------------------------------
(* The coroutine resumes with the records, or with the exception, and gives the
   lock back. *)

Position(t) == IF thread[t].lo < thread[t].hi THEN Lines(thread[t].hi) ELSE taken

Return(r, t) ==
    /\ thread[t].owner = r /\ thread[t].pc = "done"
    /\ lock' = None
    /\ thread' = [thread EXCEPT ![t] = Idle]
    /\ taken' = Position(t)
    /\ IF r = Preflight
       THEN /\ prefetched' = prefetched \cup thread[t].got
            /\ UNCHANGED <<handed, batch>>
       ELSE /\ handed' = Position(t)
            /\ batch' = thread[t].pre \cup thread[t].got
            /\ UNCHANGED prefetched
    /\ UNCHANGED <<size, file, cut>>

FailLocked(r, t) ==   \* mutant: the exception keeps the lock
    /\ thread[t].owner = r /\ thread[t].pc = "failed"
    /\ thread' = [thread EXCEPT ![t] = Idle]
    /\ cut' = (cut \/ thread[t].pre # {})
    /\ UNCHANGED <<size, file, lock, prefetched, output>>
Fail(r, t) ==
    /\ thread[t].owner = r /\ thread[t].pc = "failed"
    /\ lock' = None
    /\ thread' = [thread EXCEPT ![t] = Idle]
    /\ cut' = (cut \/ thread[t].pre # {})
    /\ UNCHANGED <<size, file, prefetched, output>>

(* A cancelled consumer leaves at once and gives the lock back.  Its thread
   goes on, and what it reads is lost, with the prefetched records. *)
Cancel(r, t) ==
    /\ "cancel" \in Env /\ r \in Consumers
    /\ thread[t].owner = r
    /\ lock' = None
    /\ thread' = [thread EXCEPT ![t].owner = None]
    /\ cut' = TRUE
    /\ UNCHANGED <<size, file, prefetched, output>>

Vanish(t) ==   \* the thread of a cancelled read has finished
    /\ thread[t].owner = None /\ thread[t].pc \in {"done", "failed"}
    /\ thread' = [thread EXCEPT ![t] = Idle]
    /\ UNCHANGED <<size, file, lock, prefetched, output, cut>>
--------------------------------------------------------------------------------
Run(t) == ReadFile(t) \/ Advance(t) \/ Split(t) \/ Vanish(t)
Resume(r) == \E t \in Threads : Return(r, t) \/ Fail(r, t)

ReadNext ==
    \/ Write
    \/ \E r \in Readers, t \in Threads : Call(r, t) \/ Cancel(r, t)
    \/ \E t \in Threads : Run(t)
    \/ \E r \in Readers : Resume(r)
ReadSpec == ReadInit /\ [][ReadNext]_readVars

(* The consumers poll, threads run, a line that was begun is finished. *)
ReadFairSpec ==
    /\ ReadSpec
    /\ WF_readVars(Write /\ ~Newline(size))
    /\ \A t \in Threads : WF_readVars(Run(t))
    /\ \A r \in Readers : WF_readVars(Resume(r))
    /\ SF_readVars(\E r \in Consumers, t \in Threads : Call(r, t))
--------------------------------------------------------------------------------
ThreadRec ==
    [pc : {"idle", "open", "read", "split", "done", "failed"},
     owner : Readers \cup {None}, lo : 0 .. size, hi : 0 .. size,
     pre : SUBSET (1 .. MaxLines), got : SUBSET (1 .. MaxLines)]

(* Types; and, unless two reads overlapped after a cancellation, the position
   in the file is never past its end. *)
ReaderTypeOK ==
    /\ size \in 0 .. 3 * MaxLines /\ offset \in Nat /\ buffer \in Seq(1 .. size)
    /\ ~cut => offset <= size
    /\ lock \in Readers \cup {None}
    /\ thread \in [Threads -> ThreadRec]
    /\ prefetched \subseteq 1 .. MaxLines
    /\ taken \in 0 .. MaxLines /\ handed \in 0 .. MaxLines
    /\ batch \subseteq 1 .. MaxLines /\ cut \in BOOLEAN

(* The reader gives the consumers what JournalFeed promises, whatever bytes a
   read ends at, with the preflight of steers reading ahead, with reads that
   raise and, once a read was cancelled, still in order and at most once. *)
Feed == INSTANCE JournalFeed WITH journal <- Lines(size)
FeedsInOrder == Feed!Spec

(* The consumers catch up with the file again and again, unless a read was cut:
   a read that raised, a line that came in pieces or what a preflight holds back
   keeps no record from them for good. *)
CatchesUp == []<>(handed = Lines(size) \/ cut)
================================================================================
