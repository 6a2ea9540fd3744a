------------------------------ MODULE LockFeed ------------------------------
(***************************************************************************)
(* The lock-feed server (ext/lock_feed/src/main.rs) over the event log of   *)
(* one node: the rescan task that follows the open file, broadcasts its     *)
(* records and announces rolled files.                                      *)
(***************************************************************************)
EXTENDS EventLog, SequencesExt

VARIABLES
    scan,      \* the rescan task: "idle", or "tail" after it found the open file
    cur,       \* current_open, 0 when none was found yet
    off,       \* current_offset
    reported,  \* reported_rolled, as positions in dir.done
    sent       \* every event broadcast, in order (history)

feedVars == <<scan, cur, off, reported, sent>>

FeedInit ==
    /\ Init
    /\ scan = "idle" /\ cur = 0 /\ off = 0
    /\ reported = {} /\ sent = <<>>

-----------------------------------------------------------------------------
(* What the directory shows. *)

\* scan_dir: a finalized file is listed only with its metafile.
Listed(d) == {i \in 1..Len(d.done) : d.done[i].meta}

-----------------------------------------------------------------------------
(* The rescan task. *)

\* Mutants: every wake reads the open file from its start; the metafiles found
\* at the feed's own start are not announced.
RescanFindRereads ==
    LET fresh == IF cur # dir.name THEN Listed(dir) \ reported ELSE {}
    IN  /\ scan = "idle" /\ HasOpen(dir)
        /\ reported' = reported \union fresh
        /\ off' = 0
        /\ cur' = dir.name
        /\ scan' = "tail"
        /\ UNCHANGED sent

RescanFindFirstSilent ==
    LET changed == cur # dir.name
        fresh == IF changed /\ cur # 0 THEN Listed(dir) \ reported ELSE {}
    IN  /\ scan = "idle" /\ HasOpen(dir)
        /\ reported' = reported \union fresh
        /\ off' = IF changed THEN 0 ELSE off
        /\ cur' = dir.name
        /\ scan' = "tail"
        /\ UNCHANGED sent

\* One wake: find the open file; when its name changed, announce the metafiles
\* not announced yet and start the new file from its beginning.
RescanFind ==
    LET changed == cur # dir.name
        fresh == IF changed THEN Listed(dir) \ reported ELSE {}
    IN  /\ scan = "idle" /\ HasOpen(dir)
        /\ reported' = reported \union fresh
        /\ off' = IF changed THEN 0 ELSE off
        /\ cur' = dir.name
        /\ scan' = "tail"
        /\ UNCHANGED sent

\* Read the found file past the offset and broadcast its records. The file may
\* have been renamed since: then nothing of it is read any more.
RescanTail ==
    LET new == IF dir.name = cur THEN SubSeq(dir.open, off + 1, Len(dir.open)) ELSE <<>>
        events == ParseFile(new)
    IN  /\ scan = "tail"
        /\ scan' = "idle"
        /\ off' = off + Len(events) * RecordSize
        /\ sent' = sent \o events
        /\ UNCHANGED <<cur, reported>>

-----------------------------------------------------------------------------
\* The feed runs beside the node: a power loss takes it too, and it starts over.
Follower == RescanFind \/ RescanTail

FeedReset ==
    /\ scan' = "idle" /\ cur' = 0 /\ off' = 0
    /\ reported' = {} /\ sent' = <<>>

LogStep == Boot \/ JournalNext \/ RollNext \/ AofNext \/ Crash

FeedNext ==
    \/ LogStep /\ UNCHANGED feedVars
    \/ PowerLoss /\ FeedReset
    \/ Follower /\ UNCHANGED logVars

FeedSpec == FeedInit /\ [][FeedNext]_<<logVars, feedVars>>

\* A supervisor restarts the node, its threads run on, and the feed's timer wakes
\* the rescan task (poll_ms) whatever inotify does.
FairFeedSpec ==
    /\ FeedSpec
    /\ WF_<<logVars, feedVars>>(Boot /\ proc = "down" /\ UNCHANGED feedVars)
    /\ WF_<<logVars, feedVars>>((RollNext \/ (RollPad /\ UNCHANGED failures)) /\ UNCHANGED feedVars)
    /\ WF_<<logVars, feedVars>>((RescanFind \/ RescanTail) /\ UNCHANGED logVars)

-----------------------------------------------------------------------------
(* Properties. *)

\* The live feed never repeats an event and never goes back, through rolls,
\* restarts and resumed files (main.rs:626-699 resets the offset on a roll only);
\* nor does what a reader of the series gets.
SentInOrder ==
    /\ ReadableInOrder
    /\ \A i, j \in 1..Len(sent) : i < j => sent[i] < sent[j]

Readables == ToSet(Readable(dir))

\* Finalized by a rename that no metafile followed: scan_dir skips the file.
Orphaned(e) == \E i \in 1..Len(dir.done) :
                   ~dir.done[i].meta /\ e \in ToSet(ParseFile(dir.done[i].data))

Served(e) ==
    \/ e \in ToSet(sent)
    \/ \E i \in reported : e \in ToSet(ParseFile(dir.done[i].data))

\* Every record in the series reaches the feed's clients: it is broadcast, or the
\* file that holds it is announced, unless a failure takes the record or leaves
\* its file without a metafile (main.rs:603-701; journal.rs:345-377 order).
EveryRecordServed ==
    \A e \in 1..MaxEvents :
        e \in Readables ~> Served(e) \/ Orphaned(e) \/ e \notin Readables
=============================================================================
