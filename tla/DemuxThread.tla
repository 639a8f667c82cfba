------------------------------- MODULE DemuxThread -------------------------------
(***************************************************************************)
(* demux/demux.c: the demuxer thread reads packets ahead into one queue    *)
(* per stream, and the readers of the streams (decoders, on any thread)    *)
(* take them, while the playback thread seeks and switches tracks.  One    *)
(* step is one critical section of in->lock; the thread leaves the lock    *)
(* to read, to seek and to tell the demuxer about tracks.                  *)
(*                                                                         *)
(* A file is a sequence of streams: its p-th packet belongs to stream      *)
(* File[p] and has the pts, the dts and the position p; 0 is no time       *)
(* (MP_NOPTS_VALUE, position -1).  Demuxing is forwards and without        *)
(* seekable cache, as by default for local files: there is one range, and  *)
(* the packets before a stream's reader_head are gone.                     *)
(***************************************************************************)
EXTENDS Integers, FiniteSets, SequencesExt

CONSTANTS Streams,
          Subs,         \* those of type STREAM_SUB
          File,
          MaxForward,   \* max_bytes, in packets
          MinSecs,      \* min_secs, in packets
          Seekables,    \* whether the demuxer can seek: a set of BOOLEANs
          Starts,       \* what may be selected before the thread gets to run
          Targets,      \* the times the user seeks to
          MaxCommands   \* bound: seeks and changes of tracks

ASSUME StreamsAssumption == Subs \subseteq Streams
ASSUME FileAssumption == File \in Seq(Streams) /\ Len(File) > 0
ASSUME LimitsAssumption == MaxForward \in Nat \ {0} /\ MinSecs \in Nat /\ MaxCommands \in Nat
ASSUME SeekablesAssumption == Seekables \subseteq BOOLEAN

Times == 1 .. Len(File)
ASSUME StartsAssumption == Starts \subseteq SUBSET Streams
ASSUME TargetsAssumption == Targets \subseteq Times

VARIABLES ds,               \* struct demux_stream, and its queue
          reading, eof, blocked, seeking, seek_pts, after_seek, tracks_switched,
          warned_queue_overflow, thread_terminate,
          pc,               \* what the demuxer thread does
          target,           \* the time it is seeking to
          pos,              \* position of the low level demuxer
          seekable,         \* never changes
          reader,           \* what demux_read_packet_async() last said
          woken,            \* readers whose wakeup_cb was called since
          commands,         \* counts them, for the bound
          now,              \* playback time, as known to the playback thread
          due,              \* ghost: no packet from this time on may be missed
          lost,             \* ghost: streams that missed one in a refresh
          atEof             \* ghost: readers that asked with in->eof set, and wait

state  == <<reading, eof, blocked, seeking, seek_pts, after_seek, tracks_switched,
            warned_queue_overflow, thread_terminate>>
ghosts == <<due, lost, atEof>>
vars   == <<ds, state, pc, target, pos, seekable, reader, woken, commands, now, ghosts>>

Stream == [selected : BOOLEAN, eof : BOOLEAN, need_wakeup : BOOLEAN, refreshing : BOOLEAN,
           queue    : Seq(Times),          \* from reader_head on
           last     : Times \union {0},    \* queue->last_dts
           last_ret : Times \union {0},    \* the last packet returned
           base     : Times \union {0}]    \* base_ts

Init == /\ \E T \in Starts :
             /\ ds = [s \in Streams |->
                       [selected |-> s \in T, eof |-> FALSE, need_wakeup |-> FALSE,
                        refreshing |-> FALSE, queue |-> <<>>, last |-> 0, last_ret |-> 0,
                        base |-> 0]]
             /\ reader = [s \in Streams |-> IF s \in T THEN "idle" ELSE "none"]
             /\ tracks_switched = (T # {})
        /\ reading = FALSE /\ eof = FALSE /\ blocked = FALSE
        /\ seeking = FALSE /\ seek_pts = 0 /\ after_seek = TRUE
        /\ warned_queue_overflow = FALSE /\ thread_terminate = FALSE
        /\ pc = "work" /\ target = 0
        /\ pos = 1 /\ seekable \in Seekables
        /\ woken = {}
        /\ commands = 0 /\ now = 1
        /\ due = [s \in Streams |-> 1] /\ lost = {} /\ atEof = {}
--------------------------------------------------------------------------------
Selected == {s \in Streams : ds[s].selected}

\* ds->eager: subtitles are read passively beside other streams.
Eager(s) == s \in Selected /\ (s \in Subs => Selected \subseteq Subs)

\* pthread_cond_signal(&in->wakeup)
Signal == pc' = IF pc = "wait" THEN "work" ELSE pc

\* Whether wakeup_ds() calls the wakeup_cb of a reader that has something to do then.
WokenUnregistered(d, s) == d[s].need_wakeup
Woken(d, s) == d[s].need_wakeup /\ reader[s] \in {"wait", "eof"}

\* wakeup_ds() of the streams T, after their state became d.
Wakeup(d, T) ==
  /\ ds' = [s \in Streams |-> IF s \in T THEN [d[s] EXCEPT !.need_wakeup = FALSE] ELSE d[s]]
  /\ woken' = woken \union {s \in T : Woken(d, s)}

\* mark_stream_eof()
MarkEof(T) ==
  LET new == {s \in T : ~ds[s].eof}
  IN Wakeup([s \in Streams |-> IF s \in new THEN [ds[s] EXCEPT !.eof = TRUE] ELSE ds[s]], new)

\* ds_clear_reader_queue_state() with clear_queue(), ds_clear_reader_state()
ClearQueue(d) == [d EXCEPT !.queue = <<>>, !.last = 0, !.eof = FALSE, !.need_wakeup = TRUE]
ClearReader(d) == [ClearQueue(d) EXCEPT !.base = 0, !.last_ret = 0]
--------------------------------------------------------------------------------
(* The readers. *)

\* demux_read_packet_async(): a reader asks when it likes, but after it was told
\* to wait, or that the stream has ended, only when it is woken.
StartsReading == ~reading /\ ~eof
MayAsk(s) == reader[s] = "idle" \/ s \in woken

TakePacket(s) ==
  LET p == Head(ds[s].queue)
  IN /\ ds' = [ds EXCEPT ![s].queue = Tail(@), ![s].last_ret = p, ![s].base = p,
                         ![s].need_wakeup = FALSE]
     /\ reader' = [reader EXCEPT ![s] = "idle"]
     /\ now' = IF s \in Subs THEN now ELSE p
     /\ due' = [due EXCEPT ![s] = p + 1]
     /\ atEof' = atEof \ {s}

\* A stream that is read passively says EOF instead of having its reader wait.
TakeNothing(s) ==
  LET end == ds[s].eof \/ ~Eager(s)
  IN /\ ds' = [ds EXCEPT ![s].eof = end, ![s].need_wakeup = TRUE]
     /\ reader' = [reader EXCEPT ![s] = IF end THEN "eof" ELSE "wait"]
     /\ atEof' = IF ~end /\ eof /\ ~reading THEN atEof \union {s} ELSE atEof \ {s}
     /\ UNCHANGED <<now, due>>

Read(s) ==
  /\ s \in Selected /\ ~thread_terminate
  /\ MayAsk(s)
  /\ woken' = woken \ {s}
  /\ IF blocked
       THEN /\ reader' = [reader EXCEPT ![s] = "wait"]
            /\ UNCHANGED <<ds, reading, pc, now, due, atEof>>
       ELSE /\ reading' = (reading \/ StartsReading)
            /\ IF StartsReading THEN Signal ELSE UNCHANGED pc
            /\ IF ds[s].queue # <<>> THEN TakePacket(s) ELSE TakeNothing(s)
  /\ UNCHANGED <<commands, eof, blocked, seeking, seek_pts, after_seek, tracks_switched,
                 warned_queue_overflow, thread_terminate, target, pos, seekable, lost>>
--------------------------------------------------------------------------------
(* The playback thread. *)

Idle == ~blocked /\ ~thread_terminate
Command == commands < MaxCommands /\ commands' = commands + 1

\* demux_seek() with SEEK_BLOCK, then the playback state is reset, and
\* demux_block_reading(false).  What the streams refresh is not reset.
Seek(t) ==
  /\ Idle /\ seekable /\ Command
  /\ Wakeup([s \in Streams |-> ClearReader(ds[s])], Streams)
  /\ eof' = FALSE /\ reading' = FALSE
  /\ warned_queue_overflow' = FALSE
  /\ blocked' = TRUE
  /\ seeking' = TRUE /\ seek_pts' = t
  /\ Signal
  /\ now' = t
  /\ due' = [s \in Streams |-> t] /\ lost' = {} /\ atEof' = {}
  /\ UNCHANGED <<after_seek, tracks_switched, thread_terminate, target, pos, seekable, reader>>

\* demux_block_reading(false) tells every reader, whatever it was told before.
Told(d) == d
ToBeTold(d) == [d EXCEPT !.need_wakeup = TRUE]
UnblockReading ==
  /\ blocked
  /\ blocked' = FALSE
  /\ Wakeup([s \in Streams |-> ToBeTold(ds[s])], Streams)
  /\ Signal
  /\ UNCHANGED <<commands, reading, eof, seeking, seek_pts, after_seek, tracks_switched,
                 warned_queue_overflow, thread_terminate, target, pos, seekable, reader,
                 now, ghosts>>

\* initiate_refresh_seek(): stream s joins at about ref.  The others read again
\* what they have buffered, and drop it up to what they have returned.
RefreshStartAtRef(s, ref) == {ref}
RefreshStart(s, ref) ==
  {ref} \union {ds[t].base : t \in {u \in Selected \ (Subs \union {s}) : ds[u].base # 0}}
Overlap == 1
Rewind(d) == IF d.selected /\ d.last_ret # 0
               THEN [ClearQueue(d) EXCEPT !.refreshing = TRUE, !.last = d.last_ret]
               ELSE ClearQueue(d)

InitiateRefresh(s, d, ref) ==
  LET start == Min(RefreshStart(s, ref))
      alone == Selected \subseteq {s}
  IN /\ ds' = IF alone THEN d ELSE [t \in Streams |-> Rewind(d[t])]
     /\ seeking' = TRUE
     /\ seek_pts' = IF alone THEN start ELSE start - Overlap
     /\ due' = [due EXCEPT ![s] = now]

\* demuxer_select_track(TRUE), and a reader for the stream is made.  The time is
\* that of reselect_demux_stream(), for subtitles some time ago.
RefPts(s) == IF s \in Subs THEN 1 .. now ELSE {now}
Select(s, ref) ==
  /\ Idle /\ s \notin Selected /\ Command
  /\ LET d == [ds EXCEPT ![s] = [ClearReader(@) EXCEPT !.selected = TRUE, !.refreshing = FALSE,
                                                       !.need_wakeup = FALSE]]
     IN IF ~after_seek /\ seekable
          THEN InitiateRefresh(s, d, ref)
          ELSE /\ ds' = d
               /\ due' = [due EXCEPT ![s] = IF after_seek THEN now ELSE Len(File) + 1]
               /\ UNCHANGED <<seeking, seek_pts>>
  /\ tracks_switched' = TRUE
  /\ reader' = [reader EXCEPT ![s] = "idle"]
  /\ lost' = lost \ {s}
  /\ Signal
  /\ UNCHANGED <<reading, eof, blocked, after_seek, warned_queue_overflow, thread_terminate,
                 target, pos, seekable, woken, now, atEof>>

\* The reader is destroyed, then demuxer_select_track(FALSE).
Deselect(s) ==
  /\ Idle /\ s \in Selected /\ Command
  /\ ds' = [ds EXCEPT ![s] = [ClearReader(@) EXCEPT !.selected = FALSE, !.refreshing = FALSE,
                                                    !.need_wakeup = FALSE]]
  /\ tracks_switched' = TRUE
  /\ reader' = [reader EXCEPT ![s] = "none"]
  /\ woken' = woken \ {s} /\ atEof' = atEof \ {s}
  /\ Signal
  /\ UNCHANGED <<reading, eof, blocked, seeking, seek_pts, after_seek, warned_queue_overflow,
                 thread_terminate, target, pos, seekable, now, due, lost>>

\* demux_stop_thread(), demux_free_async()
Stop == /\ Idle
        /\ thread_terminate' = TRUE
        /\ Signal
        /\ UNCHANGED <<commands, ds, reading, eof, blocked, seeking, seek_pts, after_seek,
                       tracks_switched, warned_queue_overflow, target, pos, seekable, reader, woken,
                       now, ghosts>>
--------------------------------------------------------------------------------
(* The demuxer thread: thread_work() as long as it makes progress. *)

Works == pc = "work" /\ ~thread_terminate

\* execute_trackswitch(), unlocked in switched_tracks()
StartSwitch == /\ Works /\ tracks_switched
               /\ tracks_switched' = FALSE
               /\ pc' = "switch"
               /\ UNCHANGED <<commands, ds, reading, eof, blocked, seeking, seek_pts, after_seek,
                              warned_queue_overflow, thread_terminate, target, pos, seekable,
                              reader, woken, now, ghosts>>

EndSwitch == /\ pc = "switch"
             /\ pc' = "work"
             /\ UNCHANGED <<commands, ds, state, target, pos, seekable, reader, woken, now, ghosts>>

\* The packets of stream s in an interval of the file.
Packets(s, from, to) == {p \in Times : File[p] = s /\ p >= from /\ p < to}

\* execute_seek(), unlocked in seek(), which lands at the time or before.
StartSeek == /\ Works /\ ~tracks_switched /\ seeking
             /\ eof' = FALSE /\ seeking' = FALSE /\ after_seek' = TRUE
             /\ target' = seek_pts
             /\ pc' = "seek"
             /\ UNCHANGED <<commands, ds, reading, blocked, seek_pts, tracks_switched,
                            warned_queue_overflow, thread_terminate, pos, seekable, reader,
                            woken, now, ghosts>>

EndSeek == /\ pc = "seek"
           /\ pos' \in {1} \union 1 .. target
           /\ lost' = IF seeking THEN lost
                      ELSE lost \union {s \in Subs : s \in Selected /\ Packets(s, due[s], pos') # {}}
           /\ target' = 0
           /\ pc' = "work"
           /\ UNCHANGED <<commands, ds, state, seekable, reader, woken, now, due, atEof>>

\* read_packet(): is more to be read?
ReadMore == \E s \in Streams : Eager(s) /\ ds[s].queue = <<>>
PrefetchMore == \E s \in Streams : /\ Eager(s) /\ ds[s].queue # <<>> /\ ds[s].base # 0
                                   /\ Last(ds[s].queue) - ds[s].base \in 0 .. MinSecs - 1
RefreshMore == \E s \in Streams : ds[s].refreshing
Full == Cardinality(UNION {ToSet(ds[s].queue) : s \in Streams}) >= MaxForward
WantsPacket == reading /\ ~blocked /\ ~Full /\ (ReadMore \/ PrefetchMore \/ RefreshMore)
Passive == Selected \ {s \in Streams : Eager(s)}

\* Nothing to do: wait for a signal, or until next_cache_update.
Rest ==
  /\ Works /\ ~tracks_switched /\ ~seeking /\ ~WantsPacket
  /\ reading' = FALSE
  /\ warned_queue_overflow' = (warned_queue_overflow \/ (reading /\ ~blocked /\ Full /\ ReadMore))
  /\ IF reading /\ ~blocked
       THEN MarkEof(Passive \union IF Full /\ ReadMore THEN {s \in Selected : ds[s].queue = <<>>}
                                                       ELSE {})
       ELSE UNCHANGED <<ds, woken>>
  /\ pc' = "wait"
  /\ UNCHANGED <<commands, eof, blocked, seeking, seek_pts, after_seek, tracks_switched,
                 thread_terminate, target, pos, seekable, reader, now, ghosts>>

StartRead ==
  /\ Works /\ ~tracks_switched /\ ~seeking /\ WantsPacket
  /\ after_seek' = FALSE
  /\ MarkEof(Passive)
  /\ pc' = "read"
  /\ UNCHANGED <<commands, reading, eof, blocked, seeking, seek_pts, tracks_switched,
                 warned_queue_overflow, thread_terminate, target, pos, seekable, reader, now,
                 ghosts>>

\* add_packet_locked() of the packet at pos
Refreshing(s) == ds[s].refreshing
Resumes(s, p) == p >= ds[s].last
AddPacket(s, p) ==
  \/ /\ s \notin Selected \/ seeking
     /\ UNCHANGED <<ds, woken, lost>>
  \/ /\ s \in Selected /\ ~seeking /\ Refreshing(s)
     /\ ds' = [ds EXCEPT ![s].refreshing = ~Resumes(s, p)]
     /\ lost' = IF p >= due[s] THEN lost \union {s} ELSE lost
     /\ UNCHANGED woken
  \/ /\ s \in Selected /\ ~seeking /\ ~Refreshing(s)
     /\ Wakeup([ds EXCEPT ![s].queue = Append(@, p), ![s].last = p, ![s].eof = FALSE,
                          ![s].base = IF @ = 0 THEN p ELSE @], {s})
     /\ UNCHANGED lost

\* Whether the end of the file that was reached matters.
AnyEofCounts == TRUE
EofCounts == ~seeking

\* The rest of read_packet(), after the packet was read.  A seek made meanwhile
\* decides what is to be read.
EndRead ==
  /\ pc = "read"
  /\ pc' = "work"
  /\ IF pos \in Times
       THEN /\ AddPacket(File[pos], pos)
            /\ pos' = pos + 1
            /\ after_seek' = FALSE
            /\ eof' = (eof /\ seeking) /\ reading' = (reading \/ ~seeking)
       ELSE /\ IF EofCounts THEN MarkEof(Selected) ELSE UNCHANGED <<ds, woken>>
            /\ eof' = (eof \/ EofCounts) /\ reading' = (reading /\ ~EofCounts)
            /\ UNCHANGED <<pos, after_seek, lost>>
  /\ UNCHANGED <<commands, blocked, seeking, seek_pts, tracks_switched, warned_queue_overflow,
                 thread_terminate, target, seekable, reader, now, due, atEof>>

\* A spurious wakeup, or the time for update_cache() has come.
Timeout == /\ pc = "wait"
           /\ pc' = "work"
           /\ UNCHANGED <<commands, ds, state, target, pos, seekable, reader, woken, now, ghosts>>

Terminate == /\ pc = "work" /\ thread_terminate
             /\ pc' = "done"
             /\ UNCHANGED <<commands, ds, state, target, pos, seekable, reader, woken, now, ghosts>>

Thread == \/ StartSwitch \/ EndSwitch \/ StartSeek \/ EndSeek \/ Rest \/ StartRead \/ EndRead
          \/ Terminate

Next == \/ Thread \/ Timeout \/ UnblockReading \/ Stop
        \/ \E t \in Targets : Seek(t)
        \/ \E s \in Streams : Read(s) \/ Deselect(s)
        \/ \E s \in Streams : \E ref \in RefPts(s) : Select(s, ref)

Spec == Init /\ [][Next]_vars
FairSpec == Spec /\ WF_vars(Thread) /\ WF_vars(UnblockReading)
--------------------------------------------------------------------------------
\* Of the types, one is a matter of the code: wakeup_cb is not called for a reader
\* that was destroyed.
TypeOK ==
  /\ ds \in [Streams -> Stream]
  /\ {reading, eof, blocked, seeking, after_seek, tracks_switched,
      warned_queue_overflow, thread_terminate} \subseteq BOOLEAN
  /\ pc \in {"work", "wait", "switch", "seek", "read", "done"}
  /\ seek_pts \in Times \union {0} /\ target \in Times \union {0}
  /\ pos \in 1 .. Len(File) + 1 /\ now \in Times /\ commands \in 0 .. MaxCommands
  /\ reader \in [Streams -> {"none", "idle", "wait", "eof"}]
  /\ woken \subseteq {s \in Selected : reader[s] \in {"wait", "eof"}}

(* Properties. *)

SeekPending == seeking \/ pc = "seek"

\* The packets from due on that are before what stream s has, or will get.
Missed(s) == LET q == ds[s].queue
             IN IF q # <<>> THEN Packets(s, due[s], Head(q))
                ELSE IF SeekPending THEN {} ELSE Packets(s, due[s], pos)

\* A reader gets every packet from the time on at which its stream was selected, or
\* that was sought: none is lost to a seek that was made during a read, to a seek
\* that superseded a refresh seek, or to the position to which a refresh goes back.
NoPacketMissed == \A s \in Selected \ lost : Missed(s) = {}

\* A refresh reads again what was buffered or returned: the queue has no gaps, no
\* packet twice, and none that its reader had before.
QueueInOrder ==
  \A s \in Selected : LET q == ds[s].queue
    IN /\ \A i \in 1 .. Len(q) - 1 : q[i] < q[i + 1] /\ Packets(s, q[i] + 1, q[i + 1]) = {}
       /\ q # <<>> => q[1] > ds[s].last_ret

\* A video or audio reader hears EOF only after its last packet, but if the queues
\* of others were full: the end of the file as seen before a seek does not count.
EofIsTrue ==
  \A s \in Selected \ (Subs \union lost) :
    ds[s].eof /\ ds[s].queue = <<>> /\ ~warned_queue_overflow =>
      Packets(s, due[s], Len(File) + 1) = {}

\* Together: what a reader gets is what the file has, in order, once, and to its end.
StreamsAreComplete == NoPacketMissed /\ QueueInOrder /\ EofIsTrue

\* A reader that was told to wait is called, unless it asked when the file had ended.
ReaderIsAnswered ==
  \A s \in Streams : reader[s] = "wait" ~> \/ reader[s] # "wait" \/ s \in woken \union atEof
                                           \/ thread_terminate

\* demux_stop_thread() joins the thread, wherever it is: it ends.
ThreadEnds == thread_terminate ~> pc = "done"

\* So nobody waits for the demuxer thread for ever, neither readers nor its joiner.
NobodyWaitsForEver == ReaderIsAnswered /\ ThreadEnds
================================================================================
