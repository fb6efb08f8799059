------------------------------ MODULE Delivery ------------------------------
(***************************************************************************)
(* How an answer travels from the downloader thread to the clients in      *)
(* src/task3/task3_3: the thread appends chunks to the cache entry and     *)
(* puts it in the dirty queue; the event loop wakes the subscribed         *)
(* sessions, and their write callbacks send the header and the chunks.     *)
(*                                                                         *)
(* One cache entry, one download, many clients.  The critical sections of  *)
(* the callbacks and of the thread interleave; the callbacks themselves    *)
(* exclude each other, because one thread runs the loop.                   *)
(***************************************************************************)
EXTENDS Integers, Sequences, FiniteSets, SequencesExt

CONSTANTS
  Clients,        \* sessions that ask for the entry
  NoClient,
  HeaderSize,     \* bound: portions in which a header is sent
  MaxBytes,       \* bound: bytes of the body
  ChunkSizes,     \* bound: sizes of the chunks that recv returns
  QueueMayFill,   \* may the dirty queue be full of other entries?
  CopyMayFail     \* may async_callback find no memory for its copies?

ASSUME ClientAssumption == NoClient \notin Clients
ASSUME BytesAssumption  == HeaderSize \in Nat \ {0} /\ MaxBytes \in Nat /\ ChunkSizes \subseteq Nat \ {0}
ASSUME LossAssumption   == QueueMayFill \in BOOLEAN /\ CopyMayFail \in BOOLEAN

VARIABLES
  ready,      \* entry->header_ready
  header,     \* entry->resp_header: "none", "origin"
  failed,     \* entry->is_failed
  completed,  \* entry->is_completed
  chunks,     \* entry->chunks, each the sequence of its bytes' positions
  worker,     \* where the downloader thread is
  queued,     \* is the entry in the dirty queue?
  signalled,  \* is an ev_async event pending?
  missed,     \* history: the last notification of the entry was lost
  sess,       \* the sessions
  got,        \* the body bytes that a client has received
  loop,       \* where the event loop is inside a callback
  todo        \* sessions that the running async_callback has still to look at

vars == <<ready, header, failed, completed, chunks, worker, queued, signalled, missed, sess, got, loop, todo>>
entryVars == <<ready, header, failed, completed, chunks>>

produced == Len(FlattenSeq(chunks))

Idle == [at |-> "idle", c |-> NoClient, ready |-> FALSE, completed |-> FALSE,
         header |-> "none", data |-> <<>>, room |-> TRUE, all |-> FALSE]

Init == /\ ready = FALSE
        /\ header = "none"
        /\ failed = FALSE
        /\ completed = FALSE
        /\ chunks = <<>>
        /\ worker = "connect"
        /\ queued = FALSE
        /\ signalled = FALSE
        /\ missed = FALSE
        /\ sess = [c \in Clients |-> [st |-> "none", writing |-> FALSE, headerSent |-> 0,
                                      buf |-> "none", cursor |-> 0]]
        /\ got = [c \in Clients |-> <<>>]
        /\ loop = Idle
        /\ todo = {}
-----------------------------------------------------------------------------
(* The downloader thread *)

Worker(from, to) == /\ worker = from
                    /\ worker' = to
                    /\ UNCHANGED <<sess, got, loop, todo>>

(* cache_entry_failed, from anywhere before the end of the answer. *)
Fail == /\ \/ Worker("connect", "stop")
           \/ Worker("recv", "stop")
        /\ ready' = TRUE
        /\ failed' = TRUE
        /\ completed' = TRUE
        /\ header' = "none"
        /\ UNCHANGED <<chunks, queued, signalled, missed>>

(* The header is complete and kept for the clients, or there is no memory *)
(* to keep it.  Body bytes may have come along with it.                   *)
ParseHeader == /\ \/ Worker("connect", "append")
                  \/ Worker("connect", "mark")
               /\ ready' = TRUE
               /\ header' \in {"origin", "none"}
               /\ UNCHANGED <<failed, completed, chunks, queued, signalled, missed>>

(* A header longer than ORIGIN_HEADER_MAX is given up: no notification. *)
GiveUpHeader == /\ Worker("connect", "recv")
                /\ ready' = TRUE
                /\ UNCHANGED <<header, failed, completed, chunks, queued, signalled, missed>>

Receive == /\ Worker("recv", "append")
           /\ produced < MaxBytes
           /\ UNCHANGED <<entryVars, queued, signalled, missed>>

(* cache_append_chunk; waiting for space is left to ProxyCache. *)
AppendChunk ==
  /\ Worker("append", "mark")
  /\ \E size \in ChunkSizes :
        /\ produced + size <= MaxBytes
        /\ chunks' = Append(chunks, [i \in 1..size |-> produced + i])
  /\ UNCHANGED <<ready, header, failed, completed, queued, signalled, missed>>

(* dirty_enqueue: queue the entry, unless it is queued or the queue is    *)
(* full, and signal the loop in any case.                                 *)
DirtyEnqueue == /\ queued' \in IF QueueMayFill THEN {queued, TRUE} ELSE {TRUE}
                /\ missed' = ~queued'
                /\ signalled' = TRUE

MarkDirty == /\ Worker("mark", "recv")
             /\ DirtyEnqueue
             /\ UNCHANGED entryVars

Complete == /\ Worker("recv", "stop")
            /\ completed' = TRUE
            /\ UNCHANGED <<ready, header, failed, chunks, queued, signalled, missed>>

(* Seeded fault: the last dirty_enqueue is forgotten. *)
NoLastMark == Worker("stop", "done") /\ UNCHANGED <<entryVars, queued, signalled, missed>>

LastMark == /\ Worker("stop", "done")
            /\ DirtyEnqueue
            /\ UNCHANGED entryVars

Download == Fail \/ ParseHeader \/ GiveUpHeader \/ Receive \/ AppendChunk \/ MarkDirty
            \/ Complete \/ LastMark
-----------------------------------------------------------------------------
(* The event loop: a request, and async_callback *)

Loop == UNCHANGED <<entryVars, worker, queued, signalled, missed>>

(* client_read_callback ends: the session subscribes and starts to write. *)
Join(c) == /\ loop.at = "idle"
           /\ sess[c].st = "none"
           /\ sess' = [sess EXCEPT ![c].st = "stream", ![c].writing = TRUE]
           /\ UNCHANGED <<got, loop, todo>> /\ Loop

Subscribed(c) == sess[c].st = "stream"

(* dirty_process_all empties the queue; the subscribers are snapshot. *)
TakeDirty == /\ loop.at = "idle"
             /\ signalled
             /\ signalled' = FALSE
             /\ queued' = FALSE
             /\ missed' = (missed /\ ~queued)
             /\ todo' = IF queued THEN {c \in Clients : Subscribed(c) /\ ~sess[c].writing} ELSE {}
             /\ loop' = IF todo' = {} THEN Idle ELSE [Idle EXCEPT !.at = "look"]
             /\ UNCHANGED <<entryVars, worker, sess, got>>

(* No memory, for the copy of the queue or for that of the subscribers:    *)
(* the event is gone, and the entry still queued or skipped.               *)
CopyFails == /\ loop.at = "idle"
             /\ signalled /\ queued /\ CopyMayFail
             /\ signalled' = FALSE
             /\ \/ UNCHANGED queued
                \/ queued' = FALSE /\ \E c \in Clients : Subscribed(c)
             /\ missed' = TRUE
             /\ UNCHANGED <<entryVars, worker, sess, got, loop, todo>>

(* First look at the entry, under its mutex ... *)
LookAt(c) == /\ loop.at = "look"
             /\ c \in todo
             /\ loop' = [loop EXCEPT !.at = "wake", !.c = c, !.ready = ready, !.completed = completed]
             /\ UNCHANGED <<sess, got, todo>> /\ Loop

(* Seeded fault: the end of the answer wakes nobody. *)
WakeForBytes == LET c == loop.c IN
  /\ loop.at = "wake"
  /\ sess' = [sess EXCEPT ![c].writing = \/ sess[c].headerSent < HeaderSize /\ loop.ready
                                         \/ sess[c].cursor < produced]
  /\ todo' = todo \ {c}
  /\ loop' = IF todo' = {} THEN Idle ELSE [Idle EXCEPT !.at = "look"]
  /\ UNCHANGED got /\ Loop

(* ... and a second one in stream_can_send_more. *)
WakeUp == LET c == loop.c IN
  /\ loop.at = "wake"
  /\ sess' = [sess EXCEPT ![c].writing = \/ sess[c].headerSent < HeaderSize /\ loop.ready
                                         \/ sess[c].cursor < produced
                                         \/ loop.completed]
  /\ todo' = todo \ {c}
  /\ loop' = IF todo' = {} THEN Idle ELSE [Idle EXCEPT !.at = "look"]
  /\ UNCHANGED got /\ Loop
-----------------------------------------------------------------------------
(* The event loop: client_write_callback *)

Park(c) == sess' = [sess EXCEPT ![c].writing = FALSE] /\ loop' = Idle

Close(c, how) == /\ sess' = [sess EXCEPT ![c].st = how, ![c].writing = FALSE]
                 /\ loop' = Idle

StartWrite(c) ==
  /\ loop.at = "idle"
  /\ Subscribed(c) /\ sess[c].writing
  /\ IF sess[c].headerSent = HeaderSize THEN loop' = [Idle EXCEPT !.at = "chunk", !.c = c] /\ UNCHANGED sess
     ELSE IF ready THEN loop' = [Idle EXCEPT !.at = "header", !.c = c] /\ UNCHANGED sess
     ELSE Park(c)
  /\ UNCHANGED <<got, todo>> /\ Loop

(* stream_send_header reads the pointer to the header under the mutex ... *)
ReadHeader == /\ loop.at = "header"
              /\ loop' = IF sess[loop.c].buf = "none"
                           THEN [loop EXCEPT !.at = "copy", !.header = header]
                           ELSE [loop EXCEPT !.at = "send"]
              /\ UNCHANGED <<sess, got, todo>> /\ Loop

(* ... and copies what it points to after the unlock: the origin's header *)
(* unless cache_entry_failed has freed it.  Without a header of the       *)
(* origin one is made up from the status.                                 *)
CopyHeader == /\ loop.at = "copy"
              /\ sess' = [sess EXCEPT ![loop.c].buf =
                            IF loop.header = "origin"
                              THEN IF header = "origin" THEN "origin" ELSE "freed"
                              ELSE IF failed THEN "502" ELSE "200"]
              /\ loop' = [loop EXCEPT !.at = "send"]
              /\ UNCHANGED <<got, todo>> /\ Loop

(* The socket is writable: some of the header goes out, or all that is    *)
(* left of it, and then the body follows in the same callback.            *)
SendHeader == LET c == loop.c IN
  /\ loop.at = "send"
  /\ \E sent \in sess[c].headerSent + 1 .. HeaderSize :
        /\ sess' = [sess EXCEPT ![c].headerSent = sent]
        /\ loop' = IF sent = HeaderSize THEN [loop EXCEPT !.at = "chunk", !.room = FALSE] ELSE Idle
  /\ UNCHANGED <<got, todo>> /\ Loop

(* The client is gone, or there is no memory for its copy of the header. *)
SendFails == /\ loop.at \in {"copy", "send", "body"}
             /\ Close(loop.c, "error")
             /\ UNCHANGED <<got, todo>> /\ Loop

(* cache_get_chunk: from the offset to the end of the chunk that holds it. *)
Start(i) == Len(FlattenSeq(SubSeq(chunks, 1, i - 1)))

(* Seeded fault: the chunk is returned from its beginning. *)
WholeChunk(offset) ==
  LET holding == {i \in DOMAIN chunks : Start(i) + Len(chunks[i]) > offset} IN
  IF holding = {} THEN <<>> ELSE chunks[CHOOSE i \in holding : \A j \in holding : i <= j]

ChunkFrom(offset) ==
  LET holding == {i \in DOMAIN chunks : Start(i) + Len(chunks[i]) > offset}
      i == CHOOSE i \in holding : \A j \in holding : i <= j IN
  IF holding = {} THEN <<>>
  ELSE SubSeq(chunks[i], offset - Start(i) + 1, Len(chunks[i]))

GetChunk == LET data == ChunkFrom(sess[loop.c].cursor) IN
  /\ loop.at = "chunk"
  /\ loop' = [loop EXCEPT !.at = IF data = <<>> THEN "miss" ELSE "body", !.data = data]
  /\ UNCHANGED <<sess, got, todo>> /\ Loop

(* send takes n bytes of the chunk; none (EAGAIN) only if the header has  *)
(* just filled the socket.                                                *)
SendBody(n) == LET c == loop.c IN
  /\ loop.at = "body"
  /\ n <= Len(loop.data)
  /\ n > 0 \/ ~loop.room
  /\ got' = [got EXCEPT ![c] = @ \o SubSeq(loop.data, 1, n)]
  /\ sess' = [sess EXCEPT ![c].cursor = @ + n]
  /\ loop' = [loop EXCEPT !.at = "after", !.data = <<>>, !.room = TRUE]
  /\ UNCHANGED todo /\ Loop

(* No chunk at the cursor: is that the end? *)
CheckEnd == /\ loop.at = "miss"
            /\ loop' = [loop EXCEPT !.at = "after",
                                    !.all = completed /\ sess[loop.c].cursor >= produced]
            /\ UNCHANGED <<sess, got, todo>> /\ Loop

(* Seeded fault: the end of the download ends the session. *)
EndWithDownload == LET c == loop.c IN
  /\ loop.at = "after"
  /\ IF completed THEN Close(c, "done")
     ELSE IF sess[c].cursor >= produced THEN Park(c)
     ELSE loop' = Idle /\ UNCHANGED sess
  /\ UNCHANGED <<got, todo>> /\ Loop

(* The end of client_write_callback, which reads the entry unlocked. *)
EndWrite == LET c == loop.c IN
  /\ loop.at = "after"
  /\ IF loop.all /\ completed THEN Close(c, "done")
     ELSE IF ~loop.all /\ ~completed /\ sess[c].cursor >= produced THEN Park(c)
     ELSE loop' = Idle /\ UNCHANGED sess
  /\ UNCHANGED <<got, todo>> /\ Loop

Callback == \/ WakeUp \/ ReadHeader \/ CopyHeader \/ SendHeader \/ SendFails
            \/ GetChunk \/ CheckEnd \/ EndWrite
            \/ \E c \in Clients : LookAt(c)
            \/ \E n \in 0..MaxBytes : SendBody(n)

Next == Download \/ TakeDirty \/ CopyFails \/ Callback \/ \E c \in Clients : Join(c) \/ StartWrite(c)

Spec == Init /\ [][Next]_vars

(* The thread and a running callback go on; libev serves every pending    *)
(* event of an iteration (strong fairness, for the loop may be busy with  *)
(* another callback in between); the client reads, so that its socket is  *)
(* writable again and again.                                              *)
FairSpec == /\ Spec
            /\ WF_vars(Download)
            /\ WF_vars(Callback)
            /\ SF_vars(TakeDirty \/ CopyFails)
            /\ \A c \in Clients : SF_vars(StartWrite(c))
-----------------------------------------------------------------------------
(* Properties *)

TypeOK ==
  /\ ready \in BOOLEAN /\ failed \in BOOLEAN /\ completed \in BOOLEAN
  /\ header \in {"none", "origin"}
  /\ chunks \in Seq(Seq(1..MaxBytes))
  /\ worker \in {"connect", "recv", "append", "mark", "stop", "done"}
  /\ queued \in BOOLEAN /\ signalled \in BOOLEAN /\ missed \in BOOLEAN
  /\ sess \in [Clients -> [st : {"none", "stream", "done", "error"}, writing : BOOLEAN,
                           headerSent : 0..HeaderSize, cursor : 0..MaxBytes,
                           buf : {"none", "origin", "200", "502", "freed"}]]
  /\ got \in [Clients -> Seq(1..MaxBytes)]
  /\ loop \in [at : {"idle", "look", "wake", "header", "copy", "send", "chunk", "body", "miss", "after"},
               c : Clients \cup {NoClient}, ready : BOOLEAN, completed : BOOLEAN,
               header : {"none", "origin"}, data : Seq(1..MaxBytes), room : BOOLEAN, all : BOOLEAN]
  /\ todo \subseteq Clients

(* No lost wake-up: a parked session that could go on has a dirty entry   *)
(* or a look of the running async_callback ahead of it, or the thread is  *)
(* about to queue the entry (dirty.c:81-119, loop.c:249-293), unless the  *)
(* last notification was lost: no room to queue it, or none to copy it.   *)
CanGoOn(c) == (sess[c].headerSent < HeaderSize /\ ready) \/ sess[c].cursor < produced \/ completed

NoLostWakeup ==
  \A c \in Clients :
     Subscribed(c) /\ ~sess[c].writing /\ CanGoOn(c) /\ ~missed
       => \/ queued /\ signalled
          \/ c \in todo
          \/ worker \in {"append", "mark", "stop"}
          \/ worker = "recv" /\ header = "none" /\ chunks = <<>>   \* after GiveUpHeader

(* Every client that does not break off is served to the end, whenever it *)
(* joined and however slowly it reads, also when the origin fails         *)
(* (README.md:4-5, 9-11), and also when notifications are lost, as long   *)
(* as the last one of the download arrives.                               *)
EveryoneServed ==
  \A c \in Clients : Subscribed(c) ~> sess[c].st \in {"done", "error"} \/ (missed /\ worker = "done")

(* The proxy broadcasts the download: every client gets the produced      *)
(* bytes in order, none twice, and is dismissed only with all of them.    *)
clientState == [c \in Clients |->
                  CASE sess[c].st = "none"   -> "away"
                    [] sess[c].st = "stream" -> "joined"
                    [] sess[c].st = "done"   -> "served"
                    [] sess[c].st = "error"  -> "broken"]

Abstract == INSTANCE Broadcast WITH ended <- completed, client <- clientState
ImplementsBroadcast == Abstract!Spec

(* downloader.c:462: "store exact origin header for clients": a session   *)
(* never sends a header out of freed memory.                              *)
HeaderIntact == \A c \in Clients : sess[c].buf # "freed"
=============================================================================
