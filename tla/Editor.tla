------------------------------- MODULE Editor -------------------------------
(***************************************************************************)
(* The code of one session, three times over: in the browser tabs' editors *)
(* and the y-websocket document they share                                 *)
(* (frontend/app/i/[token]/room/CodeTool.tsx), and in the event log, from  *)
(* which code_at() reconstructs it (backend/app/replay.py) for reviewers,  *)
(* for the agent, and for a tab that finds the shared document empty.      *)
(*                                                                         *)
(* Yjs and its websocket are external: what a connected tab types reaches  *)
(* the server's document and the other connected tabs at once, and texts   *)
(* that grew apart before a tab's first sync are joined one after the      *)
(* other.  The document lives in the memory of the y-websocket server.     *)
(***************************************************************************)
EXTENDS Integers, Sequences, SequencesExt

CONSTANTS
  Panes,       \* the editors of the candidate's browser tabs
  MaxMounts,   \* bound: times an editor is mounted
  MaxEdits,    \* bound: edits
  MaxLen,      \* bound: the length of a text that is edited
  MaxFlight,   \* bound: posts under way
  MaxFaults    \* bound: posts and fetches lost, restarts of the y-websocket server

ASSUME EditorAssumption == {MaxMounts, MaxEdits, MaxLen, MaxFlight, MaxFaults} \subseteq Nat

VARIABLES
  doc,      \* the y-websocket server's document
  pane,     \* [Panes -> ..] the editors
  posts,    \* events posted and not yet handled, the oldest first
  replay,   \* what code_at() makes of the session's log by now
  gap,      \* history: has a second editor been mounted, a snapshot been taken over unflushed
            \* deltas, a delta been lost or overtaken?
  mounts,   \* counts against MaxMounts
  edits,    \* counts against MaxEdits
  faults    \* counts against MaxFaults

counts == <<mounts, edits, faults>>
editorVars == <<doc, pane, posts, replay, gap, counts>>

-----------------------------------------------------------------------------
(* Data *)

\* A character stands for the edit that typed it.
Text == Seq(1..MaxEdits)
Delta == [at : Nat, len : Nat, text : Text]
Event == [type : {"snapshot"}, code : Text] \cup [type : {"batch"}, deltas : Seq(Delta)]
Insertion(at, text) == [at |-> at, len |-> 0, text |-> text]

\* restored is false while "armed" and, once the timer has fired to no effect, "late";
\* "failed": the fetch threw, and restored stays true.
Closed == [pc |-> "closed"]
OpenPane == [pc : {"fresh", "synced"}, text : Text, buffer : Seq(Delta),
             ask : {"armed", "late", "asked", "answered", "done", "failed"}, answer : Text]
Fresh == [pc |-> "fresh", text |-> <<>>, buffer |-> <<>>, ask |-> "armed", answer |-> <<>>]

EditorTypeOK ==
  /\ doc \in Text
  /\ pane \in [Panes -> {Closed} \cup OpenPane]
  /\ posts \in Seq(Event) /\ Len(posts) <= MaxFlight
  /\ replay \in Text
  /\ gap \in BOOLEAN
  /\ mounts \in 0..MaxMounts /\ edits \in 0..MaxEdits /\ faults \in 0..MaxFaults

EditorInit ==
  /\ doc = <<>>
  /\ pane = [t \in Panes |-> Closed]
  /\ posts = <<>> /\ replay = <<>>
  /\ gap = FALSE
  /\ mounts = 0 /\ edits = 0 /\ faults = 0

Fault == faults < MaxFaults /\ faults' = faults + 1

IsOpen(t) == pane[t].pc # "closed"
Synced == {t \in Panes : pane[t].pc = "synced"}

-----------------------------------------------------------------------------
(* replay.py *)

\* Python's slices: indices past the end are cut off.
Upto(code, n) == SubSeq(code, 1, IF n < Len(code) THEN n ELSE Len(code))
From(code, n) == SubSeq(code, n + 1, Len(code))

ApplyDelta(code, d) == Upto(code, d.at) \o d.text \o From(code, d.at + d.len)

\* The text after each of the deltas, and after all of them.
Texts(code, deltas) ==
  LET after[k \in 0..Len(deltas)] ==
        IF k = 0 THEN code ELSE ApplyDelta(after[k - 1], deltas[k])
  IN  after
ApplyBatch(code, event) == Texts(code, event.deltas)[Len(event.deltas)]

Snapshots(events) == {i \in DOMAIN events : events[i].type = "snapshot"}
\* Mutant: no snapshot is the base.
NoSnapshot(events) == 0
LatestSnapshot(events) ==
  IF Snapshots(events) = {} THEN 0
  ELSE CHOOSE i \in Snapshots(events) : \A j \in Snapshots(events) : j <= i

\* code_at() of a log that yielded code before these events: the latest snapshot, and
\* the batches after it in seq order.
Replays(base, code, events) ==
  LET after[k \in 0..Len(events)] ==
        IF k <= base THEN code
        ELSE IF events[k].type = "batch" THEN ApplyBatch(after[k - 1], events[k]) ELSE after[k - 1]
  IN  after
CodeAt(code, events) ==
  LET base == LatestSnapshot(events)
  IN  Replays(base, IF base = 0 THEN code ELSE events[base].code, events)[Len(events)]

-----------------------------------------------------------------------------
(* Editing *)

\* The tabs S show code, and each of them buffers the deltas that led to it:
\* the editor reports the changes that come from other tabs like its own.
Changed(S, code, deltas) ==
  [t \in Panes |-> IF t \in S THEN [pane[t] EXCEPT !.text = code, !.buffer = @ \o deltas]
                   ELSE pane[t]]
Shown(t) == IF t \in Synced THEN Synced ELSE {t}

\* One change event may have two cursors: c and then d, both of one text, the second
\* possibly none at all.
Change(text) == {Insertion(at, <<edits + 1>>) : at \in 0..Len(text)}
                \cup {[at |-> at, len |-> 1, text |-> <<>>] : at \in 0..Len(text) - 1}
NoChange(text) == Insertion(Len(text), <<>>)
TwoChanges(text) ==
  {cd \in Change(text) \X (Change(text) \cup {NoChange(text)}) :
     cd[1].at + cd[1].len < cd[2].at \/ cd[2] = NoChange(text)}
Edited(text, c, d) ==
  Upto(text, c.at) \o c.text \o SubSeq(text, c.at + c.len + 1, d.at) \o d.text
    \o From(text, d.at + d.len)

\* The changes of an event are recorded by descending offset.
\* Mutant: by ascending offset.
Ascending(c, d) == IF d.len = 0 /\ d.text = <<>> THEN <<c>> ELSE <<c, d>>
Recorded(c, d) == IF d.len = 0 /\ d.text = <<>> THEN <<c>> ELSE <<d, c>>

Edit(t) ==
  /\ IsOpen(t) /\ edits < MaxEdits /\ Len(pane[t].text) <= MaxLen
  /\ \E cd \in TwoChanges(pane[t].text) :
       LET code == Edited(pane[t].text, cd[1], cd[2])
       IN  /\ pane' = Changed(Shown(t), code, Recorded(cd[1], cd[2]))
           /\ doc' = IF t \in Synced THEN code ELSE doc
  /\ edits' = edits + 1
  /\ UNCHANGED <<posts, replay, gap, mounts, faults>>

-----------------------------------------------------------------------------
(* Mounting, the shared document, restoring *)

Mount(t) ==
  /\ ~IsOpen(t) /\ mounts < MaxMounts
  /\ pane' = [pane EXCEPT ![t] = Fresh]
  /\ mounts' = mounts + 1
  /\ gap' = (gap \/ mounts > 0)
  /\ UNCHANGED <<doc, posts, replay, edits, faults>>

\* The tab is closed or reloaded, or the round has another tool: what is still
\* buffered goes with it.
Unmount(t) ==
  /\ IsOpen(t)
  /\ pane' = [pane EXCEPT ![t] = Closed]
  /\ gap' = (gap \/ pane[t].buffer # <<>>)
  /\ UNCHANGED <<doc, posts, replay, counts>>

\* restoreIfEmpty(), up to the fetch.
Asks(state) ==
  IF state.ask \in {"armed", "late"} /\ state.text = <<>>
  THEN [state EXCEPT !.ask = "asked"] ELSE state

SyncedPane(state, code, deltas) ==
  [state EXCEPT !.pc = "synced", !.text = code, !.buffer = @ \o deltas]

\* The first sync: the tab's text and the document are joined, in either order.
Sync(t) ==
  /\ pane[t].pc = "fresh"
  /\ \E first \in BOOLEAN :
       LET own == pane[t].text
           code == IF first THEN own \o doc ELSE doc \o own
           there == IF doc = <<>> THEN <<>>
                    ELSE <<Insertion(IF first THEN Len(own) ELSE 0, doc)>>
           here == IF own = <<>> THEN <<>>
                   ELSE <<Insertion(IF first THEN 0 ELSE Len(doc), own)>>
           others == Changed(Synced, code, here)
       IN  /\ doc' = code
           /\ pane' = [others EXCEPT ![t] = Asks(SyncedPane(@, code, there))]
  /\ UNCHANGED <<posts, replay, gap, counts>>

\* 2.5 s after the mount, synced or not.
Timer(t) ==
  /\ IsOpen(t) /\ pane[t].ask = "armed"
  /\ pane' = [pane EXCEPT ![t] = Asks([@ EXCEPT !.ask = "late"])]
  /\ UNCHANGED <<doc, posts, replay, gap, counts>>

\* The provider reports "sync" again whenever it has lost and found its server.
Reconnect(t) ==
  /\ t \in Synced
  /\ pane' = [pane EXCEPT ![t] = Asks(@)]
  /\ UNCHANGED <<doc, posts, replay, gap, counts>>

\* Mutant: the + of the timestamp arrives as a space, and the answer has no code.
FetchUnencoded(t) ==
  /\ IsOpen(t) /\ pane[t].ask = "asked"
  /\ pane' = [pane EXCEPT ![t].ask = "answered"]
  /\ UNCHANGED <<doc, posts, replay, gap, counts>>
Fetch(t) ==
  /\ IsOpen(t) /\ pane[t].ask = "asked"
  /\ pane' = [pane EXCEPT ![t].ask = "answered", ![t].answer = replay]
  /\ UNCHANGED <<doc, posts, replay, gap, counts>>

FetchFails(t) ==
  /\ IsOpen(t) /\ pane[t].ask = "asked"
  /\ Fault
  /\ pane' = [pane EXCEPT ![t].ask = "failed"]
  /\ UNCHANGED <<doc, posts, replay, gap, mounts, edits>>

Restore(t) ==
  /\ IsOpen(t) /\ pane[t].ask = "answered"
  /\ LET code == pane[t].answer
         restored == pane[t].text = <<>> /\ code # <<>>
         now == IF restored THEN Changed(Shown(t), code, <<Insertion(0, code)>>) ELSE pane
     IN  /\ pane' = [now EXCEPT ![t].ask = "done", ![t].answer = <<>>]
         /\ doc' = IF restored /\ t \in Synced THEN code ELSE doc
  /\ UNCHANGED <<posts, replay, gap, counts>>

\* The y-websocket server is restarted.  Tabs that are connected bring their text back.
ServerRestart ==
  /\ Fault
  /\ doc' = IF Synced = {} THEN <<>> ELSE doc
  /\ UNCHANGED <<pane, posts, replay, gap, mounts, edits>>

-----------------------------------------------------------------------------
(* Recording *)

\* Every 500 ms.
Flush(t) ==
  /\ IsOpen(t) /\ pane[t].buffer # <<>> /\ Len(posts) < MaxFlight
  /\ posts' = Append(posts, [type |-> "batch", deltas |-> pane[t].buffer])
  /\ pane' = [pane EXCEPT ![t].buffer = <<>>]
  /\ UNCHANGED <<doc, replay, gap, counts>>

\* Every 30 s, and on every run; never of an empty editor.  A snapshot that repeats one
\* under way, or what the log yields with nothing under way, changes nothing and is left
\* out.
News(event) == event \notin {posts[i] : i \in DOMAIN posts} /\ (posts = <<>> => replay # event.code)
Snapshot(t) ==
  /\ IsOpen(t) /\ pane[t].text # <<>> /\ Len(posts) < MaxFlight
  /\ LET event == [type |-> "snapshot", code |-> pane[t].text]
     IN  News(event) /\ posts' = Append(posts, event)
  /\ gap' = (gap \/ pane[t].buffer # <<>>)
  /\ UNCHANGED <<doc, pane, replay, counts>>

\* Every post is a request of its own: they may overtake each other ...
Deliver(i) ==
  /\ replay' = CodeAt(replay, <<posts[i]>>)
  /\ posts' = RemoveAt(posts, i)
  /\ gap' = (gap \/ i # 1)
  /\ UNCHANGED <<doc, pane, counts>>

\* ... and one that fails is not repeated.
Lose(i) ==
  /\ Fault
  /\ posts' = RemoveAt(posts, i)
  /\ gap' = TRUE
  /\ UNCHANGED <<doc, pane, replay, mounts, edits>>

EditorNext ==
  \/ \E t \in Panes :
       \/ Mount(t) \/ Unmount(t) \/ Edit(t) \/ Sync(t) \/ Timer(t) \/ Reconnect(t)
       \/ Fetch(t) \/ FetchFails(t) \/ Restore(t) \/ Flush(t) \/ Snapshot(t)
  \/ \E i \in DOMAIN posts : Deliver(i) \/ Lose(i)
  \/ ServerRestart

EditorSpec == EditorInit /\ [][EditorNext]_editorVars

\* Timers fire, the y-websocket connection comes up, requests are answered or fail.
\* Nobody has to open, close or edit anything, and no connection has to be lost.
FairEditorSpec ==
  /\ EditorSpec
  /\ \A t \in Panes :
       /\ WF_editorVars(Sync(t) \/ Timer(t) \/ Fetch(t) \/ FetchFails(t) \/ Restore(t))
       /\ WF_editorVars(Flush(t) \/ Snapshot(t))
  /\ WF_editorVars(\E i \in DOMAIN posts : Deliver(i) \/ Lose(i))

-----------------------------------------------------------------------------
(* Properties *)

\* In one sitting of one tab the log is exact: with what is under way and what is
\* buffered it yields the text on the screen, multi-cursor edits and a restore that
\* brings back what was just deleted included, unless a snapshot was taken over
\* unflushed deltas, or a post was lost or overtaken (CodeTool.tsx:77-86, 120-129).
ExactInOneSitting ==
  ~gap =>
    \A t \in Panes : IsOpen(t) =>
      CodeAt(replay, Append(posts, [type |-> "batch", deltas |-> pane[t].buffer])) = pane[t].text

\* Whatever doubled, lost or reordered the deltas, the snapshots put the replay right:
\* once a text in a connected editor stays non-empty, code_at() becomes that text
\* and stays it.
SettledReplay ==
  \A t \in Panes :
    <>[](t \in Synced /\ pane[t].text # <<>>)
      => <>[](t \in Synced /\ replay = pane[t].text)

\* The code is not lost with the y-websocket server's memory: an editor that opens on an
\* empty document while the log has a text gets a text again, unless it is closed or
\* its one fetch fails (CodeTool.tsx:104-119).
RejoinRestores ==
  \A t \in Panes :
    (/\ pane[t].pc = "fresh" /\ pane[t].text = <<>> /\ pane[t].ask = "armed"
     /\ doc = <<>> /\ replay # <<>>)
      ~> (~IsOpen(t) \/ pane[t].text # <<>> \/ pane[t].ask = "failed" \/ replay = <<>>)
=============================================================================
