------------------------------- MODULE DemuxRanges -------------------------------
(***************************************************************************)
(* The seekable cache of demux/demux.c: ranges of packets that were read,  *)
(* which are sought in, resumed, joined and pruned.                        *)
(*                                                                         *)
(* The demuxer thread appends to the current range (the last one of the    *)
(* list, which is sorted by use) and leaves the lock to read and to seek;  *)
(* readers take packets from the current range; the user seeks and         *)
(* switches tracks.  Wakeups and blocking are in DemuxThread.  All that    *)
(* happens with in->lock held is a function on the record "in".            *)
(*                                                                         *)
(* A packet is its position in the file; positions and decoding times grow *)
(* with it.  A packet's size is 1.  Times are even, a second is 2 and 0.1  *)
(* seconds are 1.  The ghosts say what the properties except: where the    *)
(* code is known to lose a packet.  Left out: the index (it only shortens  *)
(* searching), SEEK_FORWARD, SEEK_BLOCK, seek_preroll, metadata, backward  *)
(* demuxing, read_until, the limit of prefetching in seconds, pictures,    *)
(* the disk cache, changes of options and unseekable files.                *)
(***************************************************************************)
EXTENDS Integers, FiniteSets, SequencesExt

CONSTANTS Types,        \* of the streams, by their index
          File,         \* its packets: [stream, pts, keyframe]
          MaxRanges,    \* MAX_SEEK_RANGES
          Setups        \* what is selected at first, the times that are sought, the tracks
                        \* that are switched, most: the commands, and the sizes of the caches

Streams == DOMAIN Types
Subs == {s \in Streams : Types[s] = "sub"}
Packets == DOMAIN File
Pts(p) == File[p].pts
Key(p) == File[p].keyframe
Of == [s \in Streams |-> {p \in Packets : File[p].stream = s}]

ASSUME TypesAssumption == Types \in Seq({"video", "audio", "sub"})
ASSUME FileAssumption ==
  /\ File \in Seq([stream : Streams, pts : Nat, keyframe : BOOLEAN]) /\ File # <<>>
  /\ \A p, q \in Packets : p < q => Pts(p) <= Pts(q)
ASSUME LimitsAssumption == MaxRanges \in Nat \ {0}
ASSUME SetupsAssumption ==
  \A u \in Setups : /\ u.selected \subseteq Streams /\ u.targets \subseteq Nat
                    /\ u.switches \subseteq Streams
                    /\ {u.most, u.max_bytes, u.max_bytes_bw} \subseteq Nat

VARIABLES setup,    \* one of the Setups, which never changes
          in,       \* struct demux_internal
          pc,       \* what the demuxer thread does
          target,   \* the time it is seeking to
          pos,      \* position of the low level demuxer
          goal,     \* ghost: where the user is, or wants to be
          due,      \* ghost: the packet a reader needs next, or an earlier one
          unseen,   \* ghost: packets skipped by streams that had none to resume behind
          twice,    \* ghost: packets that were appended behind later ones
          commands  \* counts them, for the bound

vars == <<setup, in, pc, target, pos, goal, due, unseen, twice, commands>>

NoTime == -100      \* MP_NOPTS_VALUE, which is less than any time
None == 0           \* no packet
Tenth == 1
Second == 2
Start == Pts(1)
--------------------------------------------------------------------------------
(* Times, and times of keyframe ranges. *)

MaxTime(T) == IF T \subseteq {NoTime} THEN NoTime ELSE Max(T)
MinTime(T) == IF T \subseteq {NoTime} THEN NoTime ELSE Min(T \ {NoTime})

NextKey(pkts, k) == {p \in pkts : p > k /\ Key(p)}
KeyframeRange(pkts, k) == {p \in pkts : p >= k /\ \A n \in NextKey(pkts, k) : p < n}

\* compute_keyframe_times(): the keyframe itself has the least time.
KeyframeMin(k) == Pts(k)
KeyframeMax(pkts, k) == Pts(Max(KeyframeRange(pkts, k)))
--------------------------------------------------------------------------------
(* Ranges and queues. *)

\* add_missing_streams(), clear_queue().  The packets from head to tail are a set: they
\* are sorted.  A ghost: the packets that were gone before the queue had a start.
EmptyQueue == [pkts |-> {}, last |-> None, latest |-> None, start |-> NoTime, end |-> NoTime,
               pruned |-> NoTime, bof |-> FALSE, eof |-> FALSE, gone |-> {}]
EmptyRange == [q |-> [s \in Streams |-> EmptyQueue], start |-> NoTime, end |-> NoTime,
               bof |-> FALSE, eof |-> FALSE]

Current(n) == Len(n.ranges)
Seeking(n) == n.seek_pts # NoTime
Queue(n, s) == n.ranges[Current(n)].q[s]
WithQueue(n, s, q) == [n EXCEPT !.ranges[Len(n.ranges)].q[s] = q]

\* ds->selected and ds->eager, after update_stream_selection_state()
Selected(n) == {s \in Streams : n.ds[s].selected}
Eager(n) == IF Selected(n) \subseteq Subs THEN Selected(n) ELSE Selected(n) \ Subs
Lazy(n) == Streams \ Eager(n)

\* update_seek_ranges() of a range, given what is selected.  When it is broken, nothing
\* looks at bof and eof.
Broken(q) == /\ q.start >= q.end
             /\ ~(q.eof /\ q.pkts = {})
             /\ ~(q.start = q.end /\ q.start # NoTime)
SeekStart(n, r) ==
  LET E == {r.q[s] : s \in Eager(n)}
      start == IF \A q \in E : q.bof THEN MinTime({q.start : q \in E})
               ELSE MaxTime({q.start : q \in {e \in E : ~e.bof}})
      P == {r.q[s].pruned : s \in Selected(n) \ Eager(n)} \ {NoTime}
  IN IF start = NoTime THEN NoTime ELSE Max({start} \union {p + Tenth : p \in P})

SeekEnd(n, r) ==
  LET E == {r.q[s] : s \in Eager(n)}
  IN IF \A q \in E : q.eof THEN MaxTime({q.end : q \in E})
     ELSE MinTime({q.end : q \in {e \in E : ~e.eof}})

Updated(n, r) ==
  LET start  == SeekStart(n, r)
      end    == SeekEnd(n, r)
      broken == start >= end \/ \E s \in Eager(n) : Broken(r.q[s])
  IN [r EXCEPT !.start = IF broken THEN NoTime ELSE start,
               !.end   = IF broken THEN NoTime ELSE end,
               !.bof   = \A s \in Eager(n) : r.q[s].bof,
               !.eof   = \A s \in Eager(n) : r.q[s].eof]
UpdateSeekRanges(n, i) == [n EXCEPT !.ranges[i] = Updated(n, @)]

\* free_empty_cached_ranges(): also the shortest of too many.
Length(r) == r.end - r.start
FreeEmpty(n) ==
  LET used  == SelectSeq(SubSeq(n.ranges, 1, Current(n) - 1), LAMBDA r : r.start # NoTime)
      worst == Max({i \in DOMAIN used :
                      \A j \in DOMAIN used : Length(used[i]) <= Length(used[j])})
      kept  == IF Len(used) + 1 > MaxRanges /\ used # <<>> THEN RemoveAt(used, worst) ELSE used
  IN [n EXCEPT !.ranges = Append(kept, n.ranges[Current(n)])]

\* Discards the i-th range.
Discard(n, i) == FreeEmpty([n EXCEPT !.ranges[i] = EmptyRange])

\* Mutant: remove_head_packet() keeps keyframe_latest.
RemoveHeadKeepLatest(q, P) == [q EXCEPT !.pkts = @ \ P, !.bof = @ /\ P = {}]

\* remove_head_packet() for all of P, the first packets.
RemoveHead(q, P) ==
  [q EXCEPT !.pkts = @ \ P, !.latest = IF @ \in P THEN None ELSE @, !.bof = @ /\ P = {}]
--------------------------------------------------------------------------------
(* attempt_range_joining() *)

JoinRange(n) ==
  LET c == n.ranges[Current(n)]
      Overlaps == {i \in 1 .. Current(n) - 1 :
                     c.start <= n.ranges[i].start /\ c.end > n.ranges[i].start}
  IN IF Overlaps = {} THEN None
     ELSE Min({i \in Overlaps : \A j \in Overlaps : n.ranges[i].start >= n.ranges[j].start})

\* Both queues have the last packet of the first one, and the second goes on behind it.  It
\* is searched from the head of the second one, up to the first packet behind it.
Examined(q1, q2) ==
  LET end == Max(q1.pkts)
  IN IF q1.pkts = {} THEN {}
     ELSE {p \in q2.pkts : p <= end \/ (end \notin q2.pkts /\ \A o \in q2.pkts : o < p => o < end)}
Joinable(n, i) ==
  \A s \in Streams :
    LET q1 == Queue(n, s)
        q2 == n.ranges[i].q[s]
    IN /\ q2.latest \notin Examined(q1, q2)
       /\ s \in Eager(n) /\ q1.pkts # {} => Max(q1.pkts) \in q2.pkts

Rest(q1, q2) == {p \in q2.pkts : q1.pkts = {} \/ p > Max(q1.pkts)}
JoinedQueue(q1, q2) ==
  [q1 EXCEPT !.pkts = @ \union Rest(q1, q2), !.end = q2.end, !.last = q2.last,
             !.latest = q2.latest, !.eof = q2.eof, !.gone = @ \union q2.gone]
\* Mutant: the streams are not refreshing after a join.
JoinedStreamUnrefreshed(d, rest) ==
  [d EXCEPT !.head = IF d.selected /\ @ = None /\ rest # {} THEN Min(rest) ELSE @,
            !.skip = FALSE]

JoinedStream(d, rest) ==
  [d EXCEPT !.head = IF d.selected /\ @ = None /\ rest # {} THEN Min(rest) ELSE @,
            !.skip = FALSE, !.refreshing = d.selected]

\* The demuxer goes to the end of the range.
Resume(n, end) == [n EXCEPT !.seek_pts = end - Second]

Joined(n, i) ==
  LET r == n.ranges[i]
      m == [n EXCEPT !.ranges[Current(n)].q = [s \in Streams |-> JoinedQueue(@[s], r.q[s])],
                     !.ds = [s \in Streams |-> JoinedStream(@[s], Rest(Queue(n, s), r.q[s]))]]
  IN Resume(UpdateSeekRanges(m, Current(n)), r.end)

AttemptRangeJoining(n) ==
  LET i == JoinRange(n)
  IN IF i = None THEN n ELSE Discard(IF Joinable(n, i) THEN Joined(n, i) ELSE n, i)
--------------------------------------------------------------------------------
(* prune_old_packets() *)

Ahead(q, head) == IF head = None THEN {} ELSE {p \in q.pkts : p >= head}
Forward(n) == Cardinality(UNION {Ahead(Queue(n, s), n.ds[s].head) : s \in Streams})
InRange(r) == Cardinality(UNION {r.q[s].pkts : s \in Streams})
Bytes(n) == FoldLeft(LAMBDA bytes, r : bytes + InRange(r), 0, n.ranges)
\* The backward cache may use what the forward cache does not use (donate_fw).
Donated(n) == IF setup.max_bytes_bw = 0 THEN 0 ELSE Max({0, setup.max_bytes - (Forward(n) + 1)})
TooMuch(n) == Bytes(n) - Forward(n) > setup.max_bytes_bw + Donated(n)

\* reader_head, if it is in the first range.
Reading(n, s) == IF Current(n) = 1 THEN n.ds[s].head ELSE None

\* What is removed first, of the range that was used least recently: what no seek can use,
\* else the stream that starts first.
PrunedStream(n) ==
  LET q      == n.ranges[1].q
      Can    == {s \in Streams : q[s].pkts # {} /\ Min(q[s].pkts) # Reading(n, s)}
      Always == {s \in Can : q[s].start = NoTime \/ ~Key(Min(q[s].pkts))}
      Oldest == {s \in Can : \A t \in Can : q[s].start <= q[t].start}
  IN IF Can = {} THEN None ELSE IF Always # {} THEN Min(Always) ELSE Min(Oldest)

\* Up to the next keyframe, but for the reader.
PruneTo(pkts, head) == {p \in pkts : /\ head \in pkts => p < head
                                     /\ \A k \in NextKey(pkts, Min(pkts)) : p < k}
PrunedQueue(q, head) ==
  LET P    == PruneTo(q.pkts, head)
      rest == q.pkts \ P
      keys == {p \in rest : Key(p)}
      left == [RemoveHead(q, P) EXCEPT !.gone = IF q.start = NoTime THEN @ \union P ELSE @]
  IN IF ~Key(Min(q.pkts)) THEN left
     ELSE [left EXCEPT !.pruned = IF q.start = NoTime THEN @ ELSE q.start,
              !.start = IF keys = {} THEN NoTime ELSE KeyframeMin(Min(keys))]
PruneOnce(n) ==
  LET s    == PrunedStream(n)
      r    == n.ranges[1]
      q    == PrunedQueue(r.q[s], Reading(n, s))
      m    == [n EXCEPT !.ranges[1].q[s] = q]
      Same == \/ ~Key(Min(r.q[s].pkts))
              \/ q.start # NoTime /\ (r.start = NoTime \/ q.start <= r.start)
      k    == IF Same THEN m ELSE UpdateSeekRanges(m, 1)
  IN IF ~TooMuch(n) \/ s = None THEN n
     ELSE IF Current(n) > 1 /\ k.ranges[1].start = NoTime THEN FreeEmpty(k) ELSE k
PruneOldPackets(n) ==
  IF TooMuch(n) THEN FoldLeft(LAMBDA m, i : PruneOnce(m), n, [i \in 1 .. Bytes(n) |-> i]) ELSE n
--------------------------------------------------------------------------------
(* What the thread does with packets. *)

\* adjust_seek_range_on_packet(), p being None at the end of the file.
Adjust(n, s, p) ==
  LET q      == Queue(n, s)
      closes == (p = None \/ Key(p)) /\ q.latest # None
      min    == KeyframeMin(q.latest)
      max    == KeyframeMax(q.pkts, q.latest)
      starts == closes /\ q.start = NoTime
      grows  == closes /\ max > q.end
      range  == n.ranges[Current(n)]
      update == \/ q.eof # (p = None) \/ starts
                \/ grows /\ (range.end = NoTime \/ q.end <= range.end)
      m == WithQueue(n, s, [q EXCEPT !.eof = (p = None), !.start = IF starts THEN min ELSE @,
                                     !.end = IF grows THEN max ELSE @,
                                     !.latest = IF p = None \/ Key(p) THEN p ELSE @])
  IN IF update /\ s \in Eager(n) THEN AttemptRangeJoining(UpdateSeekRanges(m, Current(m))) ELSE m

\* add_packet_locked()
Resumes(q, p) == p >= q.last
AddPacket(m, p) ==
  LET s == File[p].stream
      n == [m EXCEPT !.after_seek = FALSE, !.after_seek_to_start = FALSE]
      d == n.ds[s]
      q == Queue(n, s)
      reads == d.head = None /\ (~d.skip \/ Key(p))
      added == [WithQueue(n, s, [q EXCEPT !.pkts = @ \union {p}, !.last = p]) EXCEPT
                  !.ds[s] = [d EXCEPT !.head = IF reads THEN p ELSE @, !.skip = @ /\ ~reads,
                                      !.eof = FALSE, !.base = IF @ = NoTime THEN Pts(p) ELSE @],
                  !.eof = FALSE]
  IN IF ~d.selected \/ Seeking(n) THEN n
     ELSE IF d.refreshing THEN [n EXCEPT !.ds[s].refreshing = ~Resumes(q, p)]
     ELSE PruneOldPackets(Adjust(added, s, p))

\* mark_stream_eof(), of some streams, and of those without a packet to read, one after the
\* other: ranges joined meanwhile may give one of them packets.
MarkStreamEof(n, s) ==
  IF n.ds[s].eof THEN n ELSE Adjust([n EXCEPT !.ds[s].eof = TRUE], s, None)
MarkEof(n, T) ==
  FoldLeft(LAMBDA m, s : IF s \in T THEN MarkStreamEof(m, s) ELSE m, n, [s \in Streams |-> s])
EndStarving(n) ==
  FoldLeft(LAMBDA m, s : IF m.ds[s].head = None THEN MarkStreamEof(m, s) ELSE m,
           n, [s \in Streams |-> s])
--------------------------------------------------------------------------------
(* Seeking. *)

\* ds_clear_reader_state(), clear_reader_state()
ClearQueueState(d) == [d EXCEPT !.head = None, !.eof = FALSE]
ClearReader(d) == [ClearQueueState(d) EXCEPT !.base = NoTime, !.skip = FALSE, !.last_ret = None]

\* switch_current_range(), the new one being the last of n.ranges.
SwitchCurrentRange(n, old) ==
  LET Usable(q) == RemoveHead(q, {p \in q.pkts : \A k \in q.pkts : Key(k) => p < k})
  IN FreeEmpty([n EXCEPT !.ranges[old].q = [s \in Streams |-> Usable(@[s])],
                         !.ds = [s \in Streams |->
                                  [@[s] EXCEPT !.refreshing = FALSE, !.eof = FALSE]]])

\* find_cache_seek_range()
Covers(r, t) == /\ r.start # NoTime
                /\ t >= r.start \/ r.bof
                /\ t <= r.end \/ r.eof
CachedRange(n, t) ==
  LET R == {i \in DOMAIN n.ranges : Covers(n.ranges[i], t)} IN IF R = {} THEN None ELSE Min(R)

\* find_seek_target(): the last keyframe that is not after the time, or the first one.
SeekTarget(pkts, t) ==
  LET Keys   == {k \in pkts : Key(k)}
      Before == {k \in Keys : KeyframeMin(k) <= t}
  IN IF Keys = {} THEN None ELSE IF Before = {} THEN Min(Keys) ELSE Max(Before)

\* adjust_cache_seek_target(): without SEEK_HR all streams go where the video does.
AdjustedTarget(n, r, t, hr) ==
  LET V == {s \in Selected(n) : Types[s] = "video" /\ SeekTarget(r.q[s].pkts, t) # None}
  IN IF hr \/ V = {} THEN t
     ELSE LET pkts == r.q[Min(V)].pkts IN KeyframeMin(SeekTarget(pkts, t))

\* execute_cache_seek()
SeekStream(d, pkts, t) ==
  LET k == SeekTarget(pkts, t)
  IN [d EXCEPT !.head = k, !.skip = (k = None), !.base = IF k = None THEN @ ELSE Pts(k)]
Refreshed(d) == [d EXCEPT !.refreshing = d.selected]
ExecuteCacheSeek(n, i, t, hr) ==
  LET r == n.ranges[i]
      a == AdjustedTarget(n, r, t, hr)
      m == [n EXCEPT !.ds = [s \in Streams |-> SeekStream(@[s], r.q[s].pkts, a)]]
      k == SwitchCurrentRange([m EXCEPT !.ranges = Append(RemoveAt(@, i), r)], Current(n) - 1)
  IN IF i = Current(n) THEN m
     ELSE Resume([k EXCEPT !.ds = [s \in Streams |-> Refreshed(@[s])]], r.end)

\* switch_to_fresh_cache_range() and the low level seek that is queued
SeekInFile(n, t) ==
  [SwitchCurrentRange([n EXCEPT !.ranges = Append(@, EmptyRange)], Current(n))
     EXCEPT !.seek_pts = t]

\* queue_seek()
QueueSeek(n, t, hr) ==
  LET i == CachedRange(n, t)
      m == [n EXCEPT !.eof = FALSE, !.reading = FALSE,
                     !.ds = [s \in Streams |-> ClearReader(@[s])]]
  IN IF i = None THEN SeekInFile(m, t) ELSE ExecuteCacheSeek(m, i, t, hr)
--------------------------------------------------------------------------------
(* Switching tracks. *)

\* update_stream_selection_state()
ChangeSelection(n, s, selected) ==
  LET m == [n EXCEPT !.ds[s] = [ClearReader(@) EXCEPT !.selected = selected,
                                                      !.refreshing = FALSE]]
      Kept(r) == IF selected THEN r ELSE [r EXCEPT !.q[s] = EmptyQueue]
  IN FreeEmpty([m EXCEPT !.ranges = [i \in DOMAIN @ |-> Updated(m, Kept(@[i]))]])

\* initiate_refresh_seek(): all that is buffered is read again, up to what was returned.
Reread(n) ==
  LET Goes(s) == n.ds[s].selected /\ n.ds[s].last_ret # None
      d == [s \in Streams |-> [ClearQueueState(n.ds[s]) EXCEPT !.refreshing = @ \/ Goes(s)]]
      q == [s \in Streams |->
             IF Goes(s) THEN [EmptyQueue EXCEPT !.last = n.ds[s].last_ret] ELSE EmptyQueue]
      m == [n EXCEPT !.ds = d, !.ranges[Current(n)].q = q]
  IN UpdateSeekRanges(m, Current(m))
InitiateRefreshSeek(n, s, ref) ==
  LET start == MinTime({ref} \union {n.ds[o].base : o \in Selected(n) \ Subs})
  IN IF Selected(n) = {s} THEN [n EXCEPT !.seek_pts = start]
     ELSE [Reread(n) EXCEPT !.seek_pts = start - Second]

\* demuxer_select_track()
SelectTrack(n, s, ref) ==
  LET m == ChangeSelection(n, s, TRUE)
  IN IF n.after_seek THEN m ELSE InitiateRefreshSeek(m, s, ref)
--------------------------------------------------------------------------------
\* Where a reader begins, for the ghosts: the video with the last keyframe that is not after
\* the time.  Audio may begin later than the video that is sought.
Needed(s, t) == IF Types[s] = "video" THEN SeekTarget(Of[s], t) ELSE None
Following(s, p) == LET P == {o \in Of[s] : o > p} IN IF P = {} THEN None ELSE Min(P)

Init ==
  /\ setup \in Setups
  /\ in = [ranges   |-> <<Updated([ds |-> [s \in Streams |-> [selected |-> s \in setup.selected]]],
                                 EmptyRange)>>,
           ds       |-> [s \in Streams |->
                          [selected |-> s \in setup.selected, head |-> None, eof |-> FALSE,
                           refreshing |-> FALSE, skip |-> FALSE, last_ret |-> None,
                           base |-> NoTime]],
           seek_pts |-> NoTime, after_seek |-> TRUE, after_seek_to_start |-> TRUE,
           reading  |-> FALSE, eof |-> FALSE]
  /\ pc = "work" /\ target = NoTime /\ pos = 1
  /\ goal = Start /\ due = [s \in Streams |-> Needed(s, Start)]
  /\ unseen = {} /\ twice = {} /\ commands = 0

(* The readers: dequeue_packet(). *)

Asked == in.reading \/ ~in.eof
TakePacket(s) ==
  LET p    == in.ds[s].head
      next == {o \in Queue(in, s).pkts : o > p}
  IN /\ in' = PruneOldPackets(
                [in EXCEPT !.reading = Asked, !.ds[s].head = IF next = {} THEN None ELSE Min(next),
                           !.ds[s].last_ret = p, !.ds[s].base = Pts(p)])
     /\ goal' = IF s \in Subs THEN goal ELSE Pts(p)
     /\ due' = [due EXCEPT ![s] = Following(s, p)]
TakeNothing(s) ==
  /\ in' = [in EXCEPT !.reading = Asked, !.ds[s].eof = @ \/ s \in Lazy(in)]
  /\ UNCHANGED <<goal, due>>
Read(s) ==
  /\ s \in Selected(in)
  /\ IF in.ds[s].head # None THEN TakePacket(s) ELSE TakeNothing(s)
  /\ UNCHANGED <<setup, pc, target, pos, unseen, twice, commands>>

(* The user. *)

Command == commands < setup.most /\ commands' = commands + 1
Seek(t, hr) ==
  /\ Command
  /\ in' = QueueSeek(in, t, hr) /\ goal' = t
  /\ due' = [s \in Streams |-> Needed(s, t)]
  /\ UNCHANGED <<setup, pc, target, pos, unseen, twice>>
\* The demuxer was moved to the end of the range, while the reader is anywhere in it.
Resumed == in.after_seek /\ \E s \in Streams : in.ds[s].refreshing
Select(s) ==
  /\ Command /\ s \notin Selected(in)
  /\ in' = SelectTrack(in, s, goal)
  /\ due' = [due EXCEPT ![s] = IF Resumed THEN None ELSE Needed(s, goal)]
  /\ UNCHANGED <<setup, pc, target, pos, goal, unseen, twice>>
Deselect(s) ==
  /\ Command /\ s \in Selected(in)
  /\ in' = ChangeSelection(in, s, FALSE)
  /\ UNCHANGED <<setup, pc, target, pos, goal, due, unseen, twice>>

(* The demuxer thread: execute_seek(), read_packet(). *)

StartSeek ==
  /\ pc = "work" /\ Seeking(in)
  /\ in' = [in EXCEPT !.eof = FALSE, !.seek_pts = NoTime, !.after_seek = TRUE,
                       !.after_seek_to_start = (in.seek_pts <= Start)]
  /\ pc' = "seek" /\ target' = in.seek_pts
  /\ UNCHANGED <<setup, pos, goal, due, unseen, twice, commands>>

\* Demuxers seek to a keyframe of the video before the target, or farther back.
Landings(t) == {1} \union {k \in Packets : Types[File[k].stream] = "video" /\ Key(k) /\ Pts(k) <= t}
EndSeek ==
  /\ pc = "seek"
  /\ pos' \in Landings(target)
  /\ pc' = "work" /\ target' = NoTime
  /\ UNCHANGED <<setup, in, goal, due, unseen, twice, commands>>

Prefetching(n) == Eager(n) # {} \/ \E s \in Streams : n.ds[s].refreshing
Starving(n) == \E s \in Eager(n) : n.ds[s].head = None
Full(n) == Forward(n) >= setup.max_bytes
Work == pc = "work" /\ ~Seeking(in) /\ in.reading
WithoutLazy == MarkEof(in, Lazy(in))

\* If a stream starves because the others fill the queues, it is at its end, too.
StopReading ==
  /\ Work
  /\ LET n == [WithoutLazy EXCEPT !.reading = FALSE]
     IN /\ Full(n) \/ ~Prefetching(n)
        /\ in' = IF Full(n) /\ Starving(n) THEN EndStarving(n) ELSE n
  /\ UNCHANGED <<setup, pc, target, pos, goal, due, unseen, twice, commands>>

StartsFile(n) ==
  IF ~n.after_seek_to_start THEN n
  ELSE [n EXCEPT !.ranges[Current(n)].q =
          [s \in Streams |-> [@[s] EXCEPT !.bof = n.ds[s].selected /\ ~n.ds[s].refreshing]]]
StartRead ==
  /\ Work
  /\ LET n == WithoutLazy
     IN /\ ~Full(n) /\ Prefetching(n)
        /\ in' = [StartsFile(n) EXCEPT !.after_seek = FALSE, !.after_seek_to_start = FALSE]
  /\ pc' = "read"
  /\ UNCHANGED <<setup, target, pos, goal, due, unseen, twice, commands>>

Skips(p) == in.ds[File[p].stream].selected /\ ~Seeking(in) /\ in.ds[File[p].stream].refreshing
Takes(p) == in.ds[File[p].stream].selected /\ ~Seeking(in) /\ ~in.ds[File[p].stream].refreshing
ReadTo(n, eof) ==
  IF Seeking(n) THEN n
  ELSE [(IF eof THEN MarkEof(n, Streams) ELSE n) EXCEPT !.eof = eof, !.reading = ~eof]
EndRead ==
  /\ pc = "read" /\ pc' = "work"
  /\ IF pos \in Packets
       THEN LET q == Queue(in, File[pos].stream)
            IN /\ in' = ReadTo(AddPacket(in, pos), FALSE)
               /\ pos' = pos + 1
               /\ unseen' = IF Skips(pos) /\ q.last = None THEN unseen \union {pos} ELSE unseen
               /\ twice' = IF Takes(pos) /\ \E p \in q.pkts : p >= pos THEN twice \union {pos}
                           ELSE twice
       ELSE /\ in' = ReadTo(in, TRUE)
            /\ UNCHANGED <<pos, unseen, twice>>
  /\ UNCHANGED <<setup, target, goal, due, commands>>

Next == \/ \E s \in Streams : Read(s)
        \/ \E t \in setup.targets, hr \in BOOLEAN : Seek(t, hr)
        \/ \E s \in setup.switches : Select(s) \/ Deselect(s)
        \/ StartSeek \/ EndSeek \/ StopReading \/ StartRead \/ EndRead

Spec == Init /\ [][Next]_vars
--------------------------------------------------------------------------------
Queues == [pkts : SUBSET Packets, last : Packets \union {None}, latest : Packets \union {None},
           start : Int, end : Int, pruned : Int, bof : BOOLEAN, eof : BOOLEAN,
           gone : SUBSET Packets]
Ranges == [q : [Streams -> Queues], start : Int, end : Int, bof : BOOLEAN, eof : BOOLEAN]

\* What the pointers of the code point at.  The number of ranges is limited; reader_head and
\* keyframe_latest are packets of the queue, the latter a keyframe (what is removed is never
\* used later: remove_head_packet() and clear_queue() assert it of the reader); a range that
\* can be sought in has packets.
TypeOK ==
  /\ in.ranges \in Seq(Ranges) /\ Current(in) \in 1 .. MaxRanges
  /\ \A s \in Streams :
       LET q == Queue(in, s)
       IN /\ in.ds[s].head \in q.pkts \union {None}
          /\ q.latest \in {p \in q.pkts : Key(p)} \union {None}
  /\ \A i \in DOMAIN in.ranges :
       in.ranges[i].start # NoTime => \E s \in Streams : in.ranges[i].q[s].pkts # {}

Between(s, a, b) == {p \in Of[s] : a < p /\ p < b}

\* A queue of a stream that is read eagerly is a run of the file's packets: none is missing
\* where ranges were joined, where the demuxer was resumed behind a range that was sought in,
\* and where a refresh seek after a track switch made it read again.
QueuesHaveNoGaps ==
  \A i \in DOMAIN in.ranges, s \in Eager(in) :
    LET P == in.ranges[i].q[s].pkts
    IN P # {} => Between(s, Min(P), Max(P)) \subseteq P

\* Nor is one appended twice: packets that were read before are skipped (refreshing) after
\* the demuxer was sent back to before the end of a range, however far back it lands.
NothingTwice == twice = {}

\* A seek that the cache can serve (demux_seek() with SEEK_CACHED, and any seek into a range)
\* finds in every queue what a seek in the file would find: the last keyframe that is not
\* after the target.  Except: a queue that overflowed was taken for complete though the file
\* goes on (Overrun); a queue without a keyframe range does not limit the range; and with
\* subtitles alone the range is "unknown" (the comment of update_seek_ranges()).
Overrun(q, s) == q.eof /\ Max(Of[s]) \notin q.pkts
InFile == [s \in Streams, t \in UNION {u.targets : u \in Setups} |-> SeekTarget(Of[s], t)]
FindsTarget(q, s, t) ==
  LET found == SeekTarget(q.pkts, t)
      right == InFile[s, t]
  IN q.start # NoTime => found = right \/ (Overrun(q, s) /\ found < right)
SeekRangesAreTrue ==
  ~(Selected(in) \subseteq Subs) =>
    \A i \in DOMAIN in.ranges, t \in setup.targets, s \in Eager(in) :
      Covers(in.ranges[i], t) => FindsTarget(in.ranges[i].q[s], s, t)

\* A range has the subtitles of the time it covers, though subtitles never limit it: the
\* comment of update_seek_ranges() assumes so, and last_pruned is there for it.  Except those
\* pruned before their queue had a start (gone), those a stream skipped because it had
\* nothing to resume behind (unseen), and tracks that were selected after the range was read.
SubsAreThere ==
  \A i \in DOMAIN in.ranges, s \in Selected(in) \ (Eager(in) \union setup.switches) :
    LET r == in.ranges[i]
        q == r.q[s]
    IN r.start # NoTime =>
         \A p \in Of[s] :
           r.start <= Pts(p) /\ Pts(p) <= r.end => p \in q.pkts \union q.gone \union unseen

\* A reader is never beyond the packet it needs next: the one behind the last it got, or,
\* after a seek or a switch, the keyframe before the time, whether the packets come from a
\* range, from a join or from the file.
ReadersMissNothing ==
  \A s \in Eager(in) : in.ds[s].head # None /\ due[s] # None => in.ds[s].head <= due[s]

\* The seekable cache stands in for the file: what it holds, what it says it can seek to and
\* what readers get are what the file has there.
CacheIsTrue ==
  /\ QueuesHaveNoGaps
  /\ NothingTwice
  /\ SeekRangesAreTrue
  /\ SubsAreThere
  /\ ReadersMissNothing
================================================================================
