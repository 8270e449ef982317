----------------------------- MODULE ScanProofs -----------------------------
(***************************************************************************)
(* The two scans of an index database.                                     *)
(*                                                                         *)
(* The continuous scan, for any configurations, jobs, rows and bounds: a   *)
(* scan that a job has paused is still, what the workers return is written *)
(* only under the roots it was found under, and the gate of the            *)
(* configuration watcher swallows no edit.  The scanner's part is an       *)
(* argument about one handler at a time: whatever a handler makes of the   *)
(* scanner is still if it was (Still), and either outdates the files with  *)
(* the workers or keeps the roots they were found under (Outdates).  That  *)
(* jobs run beside a paused scan, and leave none paused, is bookkeeping:   *)
(* what the scanner has counted is what jobs, the supervisor and messages  *)
(* under way still owe (Outstanding).                                      *)
(*                                                                         *)
(* The file scan job, for any tree, contents, folder lists and bounds: a   *)
(* file that could be read all the time keeps its entry.  While a root is  *)
(* visited, such a file is ahead of the walk, with a worker, among the     *)
(* writes that are owed, stamped by this scan, or on the list of errors    *)
(* (Collected); when the files are marked, only the last two are left.     *)
(***************************************************************************)
EXTENDS ContinuousScan, FileScan, FiniteSetTheorems, SequenceTheorems, TLAPS

Mail == [type : {"config", "resync", "ResumeAfterJob"}] \cup [type : {"PauseForJob"}, job : Jobs]

Letters == [type : {"Pause", "Resume"}] \cup [type : {"UpdateConfig"}, config : Roots]

Doing == [type : {"idle"}] \cup [type : {"resync", "single"}, config : Configs]
            \cup [type : {"pausing", "paused"}, job : Jobs]

Files == [epoch : Nat, roots : Roots]

Types ==
    /\ config_file \in Configs /\ mounted \in BOOLEAN
    /\ event \in BOOLEAN /\ pending \in BOOLEAN /\ debounce \in BOOLEAN
    /\ mailbox \in Seq(Mail) /\ doing \in Doing /\ registered \in BOOLEAN
    /\ scanner \in Scanner \cup {None} /\ inbox \in Seq(Letters)
    /\ registered => scanner # None /\ ~scanner.stopping
    /\ work \subseteq Files /\ open \subseteq Rows
    /\ job_state \in [Jobs -> {"queued", "asking", "running", "dropped", "ended"}]

(* What a scanner keeps while a job has it paused.                         *)
Still(s) ==
    /\ s.job_pauses > 0 => s.paused /\ s.scan_id = None
    /\ s.paused => ~s.watching

(* t follows s and does not take a file for its own that s has found under *)
(* other roots.                                                            *)
Outdates(s, t) ==
    \/ t.epoch = s.epoch + 1
    \/ t.epoch = s.epoch /\ (t.paused \/ (~s.paused /\ t.roots = s.roots))

(* The files with the workers are of this scanner, and those of its epoch  *)
(* were found under its roots.                                             *)
WorkIsTagged ==
    /\ scanner = None => work = {}
    /\ \A w \in work : /\ w.epoch <= scanner.epoch
                       /\ w.epoch = scanner.epoch /\ ~scanner.paused => w.roots = scanner.roots

ScanInv == Types /\ PausedForJobIsStill /\ WorkIsTagged
-----------------------------------------------------------------------------
(* The handlers of the scanner                                             *)

LEMMA FilesStay ==
  ASSUME ScanInv, scanner \in Scanner, scanner' \in Scanner, work' = work,
         Outdates(scanner, scanner')
  PROVE  WorkIsTagged'
<1>1. scanner' # None /\ scanner # None
  BY ScannerAssumption
<1>2. scanner.epoch \in Nat /\ scanner'.epoch \in Nat
  BY DEF Scanner
<1> SUFFICES ASSUME NEW w \in work
             PROVE  /\ w.epoch <= scanner'.epoch
                    /\ w.epoch = scanner'.epoch /\ ~scanner'.paused => w.roots = scanner'.roots
  BY <1>1 DEF WorkIsTagged
<1>3. w.epoch \in Nat /\ w.epoch <= scanner.epoch
  BY DEF ScanInv, Types, Files, WorkIsTagged
<1>4. w.epoch = scanner.epoch /\ ~scanner.paused => w.roots = scanner.roots
  BY DEF ScanInv, WorkIsTagged
<1> QED
  BY <1>2, <1>3, <1>4 DEF Outdates

LEMMA StillHolds ==
  ASSUME ScanInv, scanner # None PROVE scanner \in Scanner /\ Still(scanner)
BY DEF ScanInv, Types, PausedForJobIsStill, Still

LEMMA ClosedIs ==
  ASSUME NEW s \in Scanner
  PROVE  /\ Closed(s) \in Scanner /\ Closed(s).scan_id = None
         /\ (Closed(s).paused <=> s.paused) /\ (Closed(s).watching <=> s.watching)
         /\ Closed(s).epoch = s.epoch /\ Closed(s).roots = s.roots
BY DEF Closed, Scanner

LEMMA StartedIs ==
  ASSUME NEW s \in Scanner, NEW ok \in BOOLEAN, Unused(s) # {}
  PROVE  /\ Started(s, ok) \in Scanner
         /\ (Started(s, ok).paused <=> s.paused) /\ (Started(s, ok).watching <=> s.watching)
         /\ Started(s, ok).epoch = s.epoch /\ Started(s, ok).roots = s.roots
         /\ Started(s, ok).job_pauses = s.job_pauses /\ (Started(s, ok).stopping <=> s.stopping)
         /\ Started(s, ok).scan_id \in Rows \cup {None}
<1>1. (CHOOSE row \in Unused(s) : TRUE) \in Rows
  BY DEF Unused
<1> QED
  BY <1>1 DEF Started, Scanner

LEMMA RefreshedIs ==
  ASSUME NEW s \in Scanner, NEW config \in Roots \cup {Off}
  PROVE  /\ Refreshed(s, config) \in Scanner
         /\ (Refreshed(s, config).paused <=> s.paused)
         /\ (Refreshed(s, config).watching <=> s.watching)
         /\ Refreshed(s, config).epoch = s.epoch
         /\ Refreshed(s, config).job_pauses = s.job_pauses
         /\ Refreshed(s, config).scan_id = s.scan_id
         /\ (Refreshed(s, config).stopping <=> s.stopping)
         /\ Refreshed(s, config).roots = IF mounted /\ config # Off THEN config ELSE None
BY DEF Refreshed, Scanner

LEMMA PauseMoves ==
  ASSUME ScanInv, HandlePause
  PROVE  scanner' \in Scanner /\ Still(scanner') /\ Outdates(scanner, scanner')
         /\ (scanner'.stopping <=> scanner.stopping)
<1>1. scanner \in Scanner /\ scanner # None
  BY StillHolds DEF HandlePause, Handles
<1> DEFINE s == [scanner EXCEPT !.paused = TRUE, !.job_pauses = @ + 1,
                                !.epoch = @ + 1, !.watching = FALSE]
<1>2. /\ s \in Scanner /\ s.paused /\ ~s.watching /\ s.epoch = scanner.epoch + 1
      /\ (s.stopping <=> scanner.stopping)
  <2>0. scanner.job_pauses + 1 \in Nat /\ scanner.epoch + 1 \in Nat
    BY <1>1 DEF Scanner
  <2>1. s \in Scanner
    BY <1>1, <2>0 DEF Scanner
  <2>2. s.paused /\ ~s.watching
    BY <1>1 DEF Scanner
  <2>3. s.epoch = scanner.epoch + 1
    BY <1>1 DEF Scanner
  <2>4. (s.stopping <=> scanner.stopping)
    BY <1>1 DEF Scanner
  <2> QED
    BY <2>1, <2>2, <2>3, <2>4
<1>3. scanner' = Closed(s)
  BY DEF HandlePause
<1> HIDE DEF s
<1>4. (Closed(s).stopping <=> s.stopping)
  BY <1>2 DEF Closed, Scanner
<1> QED
  BY <1>2, <1>3, <1>4, ClosedIs DEF Still, Outdates

LEMMA OutcomesAreBooleans == Outcomes \subseteq BOOLEAN
BY DEF Outcomes

LEMMA ReadableIs == ASSUME ScanInv, config_file # Unreadable PROVE config_file \in Roots \cup {Off}
BY ConfigsAssumption DEF ScanInv, Types

LEMMA ResumeMoves ==
  ASSUME ScanInv, HandleResume
  PROVE  scanner' \in Scanner /\ Still(scanner') /\ Outdates(scanner, scanner')
         /\ (scanner'.stopping <=> scanner.stopping)
<1>1. scanner \in Scanner /\ scanner # None /\ Still(scanner)
  BY StillHolds DEF HandleResume, Handles
<1> DEFINE n == IF scanner.job_pauses = 0 THEN 0 ELSE scanner.job_pauses - 1
           s == [scanner EXCEPT !.job_pauses = IF @ = 0 THEN 0 ELSE @ - 1]
<1>2. n \in Nat /\ (n > 0 => scanner.job_pauses > 0)
  BY <1>1 DEF Scanner
<1>3. /\ s \in Scanner /\ s.job_pauses = n
      /\ (s.paused <=> scanner.paused) /\ (s.watching <=> scanner.watching)
      /\ (s.stopping <=> scanner.stopping) /\ s.epoch = scanner.epoch
      /\ s.roots = scanner.roots /\ s.scan_id = scanner.scan_id
  <2>1. s = [scanner EXCEPT !.job_pauses = n]
    OBVIOUS
  <2>2. [scanner EXCEPT !.job_pauses = n] \in Scanner
    BY <1>1, <1>2 DEF Scanner
  <2> QED
    BY <1>1, <2>1, <2>2 DEF Scanner
<1> DEFINE loaded == Refreshed(s, config_file)
<1>4. CASE (~MayRun(s) \/ config_file = Unreadable) /\ scanner' = s
  <2>1. Still(s) /\ Outdates(scanner, s)
    BY <1>1, <1>2, <1>3 DEF Still, Outdates
  <2> QED
    BY <1>3, <1>4, <2>1
<1>5. ASSUME MayRun(s), config_file # Unreadable
      PROVE  /\ loaded \in Scanner /\ loaded.job_pauses = 0 /\ loaded.epoch = scanner.epoch
             /\ (loaded.stopping <=> scanner.stopping)
  <2>1. s \in Scanner /\ s.job_pauses = 0 /\ config_file \in Roots \cup {Off}
    BY <1>3, <1>5, ReadableIs DEF MayRun
  <2> HIDE DEF s
  <2> QED
    BY <1>3, <2>1, RefreshedIs
<1>6. CASE /\ MayRun(s) /\ config_file = Off /\ mounted
           /\ scanner' = [loaded EXCEPT !.paused = TRUE, !.watching = FALSE]
  <2>1. config_file # Unreadable
    BY <1>6, ConfigsAssumption
  <2>2. loaded \in Scanner /\ loaded.job_pauses = 0 /\ loaded.epoch = scanner.epoch
        /\ (loaded.stopping <=> scanner.stopping)
    BY <1>5, <1>6, <2>1
  <2> HIDE DEF loaded
  <2>3. scanner' \in Scanner /\ scanner'.paused /\ ~scanner'.watching
        /\ scanner'.job_pauses = 0 /\ scanner'.epoch = scanner.epoch
        /\ (scanner'.stopping <=> scanner.stopping)
    BY <1>6, <2>2 DEF Scanner
  <2> QED
    BY <2>3 DEF Still, Outdates
<1>7. CASE /\ MayRun(s) /\ config_file # Unreadable
           /\ scanner' = Closed([loaded EXCEPT !.paused = TRUE, !.watching = FALSE,
                                               !.epoch = @ + 1])
  <2>1. loaded \in Scanner /\ loaded.job_pauses = 0 /\ loaded.epoch = scanner.epoch
        /\ (loaded.stopping <=> scanner.stopping)
    BY <1>5, <1>7
  <2> HIDE DEF loaded
  <2> DEFINE t == [loaded EXCEPT !.paused = TRUE, !.watching = FALSE, !.epoch = @ + 1]
  <2>2. loaded.epoch + 1 \in Nat
    BY <2>1 DEF Scanner
  <2>3. t \in Scanner /\ t.paused /\ ~t.watching /\ t.epoch = scanner.epoch + 1
        /\ (t.stopping <=> scanner.stopping)
    BY <2>1, <2>2 DEF Scanner
  <2> HIDE DEF t
  <2>4. scanner' = Closed(t) /\ (Closed(t).stopping <=> t.stopping)
    BY <1>7, <2>3 DEF t, Closed, Scanner
  <2> QED
    BY <2>3, <2>4, ClosedIs DEF Still, Outdates
<1>8. CASE /\ MayRun(s) /\ config_file # Unreadable /\ Unused(s) # {}
           /\ \E writes, watches \in Outcomes :
                 scanner' = Started([loaded EXCEPT !.paused = FALSE, !.epoch = @ + 1,
                                                   !.watching = watches], writes)
  <2>1. loaded \in Scanner /\ loaded.job_pauses = 0 /\ loaded.epoch = scanner.epoch
        /\ (loaded.stopping <=> scanner.stopping) /\ loaded.scan_id = s.scan_id
    BY <1>3, <1>5, <1>8, ReadableIs, RefreshedIs
  <2> HIDE DEF loaded, s
  <2>2. PICK writes \in BOOLEAN, watches \in BOOLEAN :
          scanner' = Started([loaded EXCEPT !.paused = FALSE, !.epoch = @ + 1,
                                            !.watching = watches], writes)
    BY <1>8, OutcomesAreBooleans
  <2> DEFINE t == [loaded EXCEPT !.paused = FALSE, !.epoch = @ + 1, !.watching = watches]
  <2>3. loaded.epoch + 1 \in Nat
    BY <2>1 DEF Scanner
  <2>4. t \in Scanner /\ ~t.paused /\ t.epoch = scanner.epoch + 1 /\ t.job_pauses = 0
        /\ (t.stopping <=> scanner.stopping) /\ t.scan_id = s.scan_id
    BY <2>1, <2>3 DEF Scanner
  <2> HIDE DEF t
  <2>5. scanner' = Started(t, writes) /\ Unused(t) # {}
    BY <1>8, <2>2, <2>4 DEF t, Unused
  <2> QED
    BY <2>4, <2>5, StartedIs DEF Still, Outdates
<1> QED
  BY <1>4, <1>6, <1>7, <1>8, ConfigsAssumption DEF HandleResume

LEMMA HeadIs == ASSUME ScanInv, inbox # <<>> PROVE Head(inbox) \in Letters /\ Tail(inbox) \in Seq(Letters)
BY HeadTailProperties DEF ScanInv, Types

LEMMA UpdateConfigMoves ==
  ASSUME ScanInv, HandleUpdateConfig
  PROVE  scanner' \in Scanner /\ Still(scanner') /\ Outdates(scanner, scanner')
         /\ (scanner'.stopping <=> scanner.stopping)
<1>1. scanner \in Scanner /\ scanner # None /\ Still(scanner)
  BY StillHolds DEF HandleUpdateConfig, Handles
<1> DEFINE config == Head(inbox).config
           s == Refreshed(scanner, config)
           active == scanner.watching \/ scanner.scan_id # None
<1>2. config \in Roots
  BY HeadIs DEF HandleUpdateConfig, Handles, Letters
<1>3. /\ s \in Scanner /\ s.job_pauses = scanner.job_pauses
      /\ (s.paused <=> scanner.paused) /\ (s.watching <=> scanner.watching)
      /\ (s.stopping <=> scanner.stopping) /\ s.epoch = scanner.epoch
      /\ s.roots = (IF mounted THEN config ELSE None) /\ s.scan_id = scanner.scan_id
  BY <1>1, <1>2, RefreshedIs, ConfigsAssumption
<1>4. s.epoch + 1 \in Nat
  BY <1>3 DEF Scanner
<1>5. \/ scanner' = Closed([s EXCEPT !.paused = TRUE, !.epoch = @ + 1, !.watching = FALSE])
      \/ ~mounted /\ ~active /\ scanner' = [s EXCEPT !.paused = TRUE]
      \/ /\ mounted /\ MayRun(scanner) /\ NeedsRestart(scanner, config) /\ Unused(s) # {}
         /\ \E writes, watches \in Outcomes :
              LET r == [Restarted(s) EXCEPT !.watching = watches]
              IN  scanner' = IF scanner.config = Off THEN Started(r, writes) ELSE r
      \/ mounted /\ (~MayRun(scanner) \/ ~NeedsRestart(scanner, config)) /\ scanner' = s
  BY DEF HandleUpdateConfig
<1> HIDE DEF s, config
<1>6. CASE scanner' = Closed([s EXCEPT !.paused = TRUE, !.epoch = @ + 1, !.watching = FALSE])
  <2> DEFINE t == [s EXCEPT !.paused = TRUE, !.epoch = @ + 1, !.watching = FALSE]
  <2>1. t \in Scanner /\ t.paused /\ ~t.watching /\ t.epoch = scanner.epoch + 1
        /\ (t.stopping <=> scanner.stopping)
    BY <1>3, <1>4 DEF Scanner
  <2> HIDE DEF t
  <2>2. scanner' = Closed(t) /\ (Closed(t).stopping <=> t.stopping)
    BY <1>6, <2>1 DEF t, Closed, Scanner
  <2> QED
    BY <2>1, <2>2, ClosedIs DEF Still, Outdates
<1>7. CASE ~mounted /\ ~active /\ scanner' = [s EXCEPT !.paused = TRUE]
  <2>1. /\ scanner' \in Scanner /\ scanner'.paused /\ ~scanner'.watching
        /\ scanner'.epoch = scanner.epoch /\ scanner'.scan_id = None
        /\ (scanner'.stopping <=> scanner.stopping)
    BY <1>3, <1>7 DEF Scanner
  <2> QED
    BY <2>1 DEF Still, Outdates
<1>8. ASSUME MayRun(scanner), Unused(s) # {},
             NEW writes \in Outcomes, NEW watches \in Outcomes,
             scanner' = LET r == [Restarted(s) EXCEPT !.watching = watches]
                        IN  IF scanner.config = Off THEN Started(r, writes) ELSE r
      PROVE  scanner' \in Scanner /\ Still(scanner') /\ Outdates(scanner, scanner')
             /\ (scanner'.stopping <=> scanner.stopping)
  <2> DEFINE r == [Restarted(s) EXCEPT !.watching = watches]
  <2>1. writes \in BOOLEAN /\ watches \in BOOLEAN
    BY OutcomesAreBooleans
  <2>2. /\ r \in Scanner /\ ~r.paused /\ r.epoch = scanner.epoch + 1 /\ r.job_pauses = 0
        /\ (r.stopping <=> scanner.stopping) /\ r.scan_id = s.scan_id
    BY <1>3, <1>4, <1>8, <2>1 DEF Scanner, Restarted, MayRun
  <2> HIDE DEF r
  <2>3. scanner' = IF scanner.config = Off THEN Started(r, writes) ELSE r
    BY <1>8 DEF r
  <2>4. Unused(r) # {}
    BY <1>8, <2>2 DEF Unused
  <2>5. Still(r) /\ Outdates(scanner, r)
    BY <2>2 DEF Still, Outdates
  <2>6. Started(r, writes) \in Scanner /\ Still(Started(r, writes))
        /\ Outdates(scanner, Started(r, writes))
        /\ (Started(r, writes).stopping <=> r.stopping)
    BY <2>1, <2>2, <2>4, StartedIs DEF Still, Outdates
  <2> QED
    BY <2>2, <2>3, <2>5, <2>6
<1>9. CASE mounted /\ (~MayRun(scanner) \/ ~NeedsRestart(scanner, config)) /\ scanner' = s
  <2>1. Still(s)
    BY <1>1, <1>3 DEF Still
  <2>2. Outdates(scanner, s)
    <3>1. CASE ~MayRun(scanner)
      <4>1. scanner.job_pauses > 0
        BY <1>1, <3>1 DEF MayRun, Scanner
      <4> QED
        BY <1>1, <1>3, <4>1 DEF Still, Outdates
    <3>2. CASE ~NeedsRestart(scanner, config)
      BY <1>3, <1>9, <3>2 DEF NeedsRestart, Outdates
    <3> QED
      BY <1>9, <3>1, <3>2
  <2> QED
    BY <1>3, <1>9, <2>1, <2>2
<1> QED
  BY <1>5, <1>6, <1>7, <1>8, <1>9

-----------------------------------------------------------------------------
(* The steps                                                               *)

(* Nothing of the scanner moves.                                           *)
LEMMA ScannerStays ==
  ASSUME ScanInv, Types', scanner' = scanner, work' \subseteq work PROVE ScanInv'
BY DEF ScanInv, PausedForJobIsStill, WorkIsTagged

(* A handler of the scanner moves it.                                      *)
LEMMA ScannerMoves ==
  ASSUME ScanInv, scanner # None, ~scanner.stopping, inbox # <<>>, inbox' = Tail(inbox),
         scanner' \in Scanner, Still(scanner'), Outdates(scanner, scanner'),
         scanner'.stopping <=> scanner.stopping,
         open' \subseteq Rows, doing' \in Doing,
         UNCHANGED <<config_file, mounted, edits, watch, mailbox, registered, work, job_state>>
  PROVE  ScanInv'
<1>1. scanner \in Scanner
  BY StillHolds
<1>2. scanner' # None
  BY ScannerAssumption
<1>3. Types'
  BY <1>2, HeadIs DEF ScanInv, Types, watch
<1>4. PausedForJobIsStill'
  BY DEF PausedForJobIsStill, Still
<1>5. WorkIsTagged'
  BY <1>1, FilesStay
<1> QED
  BY <1>3, <1>4, <1>5 DEF ScanInv

LEMMA RepliedIs == ASSUME ScanInv PROVE Replied \in Doing
<1>1. doing \in Doing
  BY DEF ScanInv, Types
<1>2. CASE doing.type = "pausing"
  <2>1. doing \in [type : {"pausing", "paused"}, job : Jobs]
    BY <1>1, <1>2 DEF Doing
  <2>2. [doing EXCEPT !.type = "paused"] \in [type : {"pausing", "paused"}, job : Jobs]
    BY <2>1
  <2> QED
    BY <1>2, <2>2 DEF Replied, Doing
<1> QED
  BY <1>1, <1>2 DEF Replied

LEMMA InitInv == Init => ScanInv
<1> SUFFICES ASSUME Init PROVE ScanInv
  OBVIOUS
<1>1. (CHOOSE row \in Rows : TRUE) \in Rows
  BY RowsAssumption
<1>2. open \subseteq Rows
  BY <1>1 DEF Init
<1>3. doing \in Doing /\ mounted \in BOOLEAN
  BY MountsAssumption DEF Init, Doing
<1>4. job_state \in [Jobs -> {"queued", "asking", "running", "dropped", "ended"}]
  BY DEF Init
<1>5. mailbox \in Seq(Mail) /\ inbox \in Seq(Letters)
  BY DEF Init
<1>6. Types
  BY <1>2, <1>3, <1>4, <1>5 DEF Init, Types
<1> QED
  BY <1>6 DEF Init, ScanInv, PausedForJobIsStill, WorkIsTagged

LEMMA EditInv ==
  ASSUME ScanInv, NEW config \in Configs, NEW api \in BOOLEAN, Edit(config, api) PROVE ScanInv'
<1>1. Types'
  BY DEF ScanInv, Types, Edit, Mail, actor
<1> QED
  BY <1>1, ScannerStays DEF Edit, actor

LEMMA RemountInv == ASSUME ScanInv, Remount PROVE ScanInv'
<1>1. Types'
  BY DEF ScanInv, Types, Remount, watch, supervisor, actor
<1> QED
  BY <1>1, ScannerStays DEF Remount, supervisor, actor

LEMMA WatcherEventInv == ASSUME ScanInv, WatcherEvent PROVE ScanInv'
<1>1. Types'
  BY DEF ScanInv, Types, WatcherEvent, supervisor, actor
<1> QED
  BY <1>1, ScannerStays DEF WatcherEvent, supervisor, actor

LEMMA DebounceEndsInv == ASSUME ScanInv, DebounceEnds PROVE ScanInv'
<1>1. mailbox' \in Seq(Mail)
  BY DEF ScanInv, Types, DebounceEnds, Mail
<1>2. Types'
  BY <1>1 DEF ScanInv, Types, DebounceEnds, actor
<1> QED
  BY <1>2, ScannerStays DEF DebounceEnds, actor

LEMMA ResyncIntervalInv == ASSUME ScanInv, ResyncInterval PROVE ScanInv'
<1>1. Types'
  BY DEF ScanInv, Types, ResyncInterval, Mail, watch, actor
<1> QED
  BY <1>1, ScannerStays DEF ResyncInterval, actor

(* What the supervisor takes from its mailbox.                             *)
LEMMA Taken ==
  ASSUME ScanInv, NEW type, Takes(type)
  PROVE  /\ Head(mailbox) \in Mail /\ Head(mailbox).type = type
         /\ Tail(mailbox) \in Seq(Mail)
BY HeadTailProperties DEF ScanInv, Types, Takes

LEMMA ResyncFromDiskInv == ASSUME ScanInv, ResyncFromDisk PROVE ScanInv'
<1>1. Types'
  BY Taken DEF ScanInv, Types, ResyncFromDisk, Doing, actor
<1> QED
  BY <1>1, ScannerStays DEF ResyncFromDisk, actor

LEMMA ConfigChangedInv == ASSUME ScanInv, ConfigChanged PROVE ScanInv'
<1>1. doing' \in Doing
  BY DEF ScanInv, Types, ConfigChanged, Doing, Idle
<1>2. Types'
  BY <1>1, Taken DEF ScanInv, Types, ConfigChanged, watch, actor
<1> QED
  BY <1>2, ScannerStays DEF ConfigChanged, actor

LEMMA PauseForJobInv == ASSUME ScanInv, PauseForJob PROVE ScanInv'
<1>1. Head(mailbox).job \in Jobs /\ Tail(mailbox) \in Seq(Mail)
  BY Taken DEF PauseForJob, Mail
<1>2. doing' \in Doing /\ inbox' \in Seq(Letters)
  BY <1>1 DEF ScanInv, Types, PauseForJob, Doing, Letters
<1>3. Types'
  BY <1>1, <1>2 DEF ScanInv, Types, PauseForJob, watch
<1> QED
  BY <1>3, ScannerStays DEF PauseForJob

LEMMA PauseReplyInv == ASSUME ScanInv, PauseReply PROVE ScanInv'
<1>1. doing' \in Doing
  BY DEF PauseReply, Doing, Idle
<1>2. job_state' \in [Jobs -> {"queued", "asking", "running", "dropped", "ended"}]
  BY DEF ScanInv, Types, PauseReply
<1>3. Types'
  BY <1>1, <1>2 DEF ScanInv, Types, PauseReply, watch, actor
<1> QED
  BY <1>3, ScannerStays DEF PauseReply, actor

LEMMA ResumeAfterJobInv == ASSUME ScanInv, ResumeAfterJob PROVE ScanInv'
<1>1. doing' \in Doing
  <2>1. Idle \in Doing /\ [type |-> "single", config |-> config_file] \in Doing /\ doing \in Doing
    BY DEF ScanInv, Types, Doing, Idle
  <2> QED
    BY <2>1 DEF ResumeAfterJob
<1>2. inbox' \in Seq(Letters)
  <2>1. inbox \in Seq(Letters) /\ [type |-> "Resume"] \in Letters
    BY DEF ScanInv, Types, Letters
  <2>2. Append(inbox, [type |-> "Resume"]) \in Seq(Letters)
    BY <2>1, AppendProperties
  <2> QED
    BY <2>1, <2>2 DEF ResumeAfterJob
<1>3. Types'
  BY <1>1, <1>2, Taken DEF ScanInv, Types, ResumeAfterJob, watch
<1> QED
  BY <1>3, ScannerStays DEF ResumeAfterJob

(* The supervisor stops, configures or spawns the scanner.                 *)
LEMMA SyncInv == ASSUME ScanInv, Sync PROVE ScanInv'
<1>0. doing' \in Doing /\ doing.config \in Configs
  BY DEF ScanInv, Types, Sync, Doing, Idle
<1>1. CASE StopScanner /\ UNCHANGED <<inbox, work, open, faults>>
  <2>1. CASE registered
    <3>1. scanner \in Scanner /\ scanner # None /\ Still(scanner)
      BY <2>1, StillHolds DEF ScanInv, Types
    <3>2. scanner' = [scanner EXCEPT !.stopping = TRUE]
      BY <1>1, <2>1 DEF StopScanner
    <3>3. scanner' \in Scanner /\ Still(scanner') /\ Outdates(scanner, scanner')
      BY <3>1, <3>2 DEF Scanner, Still, Outdates
    <3>4. Types'
      BY <1>0, <1>1, <3>3 DEF ScanInv, Types, Sync, StopScanner, watch
    <3>5. WorkIsTagged'
      BY <1>1, <3>1, <3>3, FilesStay
    <3> QED
      BY <3>3, <3>4, <3>5 DEF ScanInv, PausedForJobIsStill, Still
  <2>2. CASE ~registered
    <3>1. Types'
      BY <1>0, <1>1, <2>2 DEF ScanInv, Types, Sync, StopScanner, watch
    <3> QED
      BY <1>1, <2>2, <3>1, ScannerStays DEF StopScanner
  <2> QED
    BY <2>1, <2>2 DEF ScanInv, Types
<1>2. CASE /\ doing.config \in Roots
           /\ inbox' = Append(inbox, [type |-> "UpdateConfig", config |-> doing.config])
           /\ UNCHANGED <<registered, scanner, work, open, faults>>
  <2>1. inbox' \in Seq(Letters)
    BY <1>2 DEF ScanInv, Types, Letters
  <2>2. Types'
    BY <1>0, <1>2, <2>1 DEF ScanInv, Types, Sync, watch
  <2> QED
    BY <1>2, <2>2, ScannerStays
<1>3. CASE UNCHANGED <<registered, actor, faults>>
  <2>1. Types'
    BY <1>0, <1>3 DEF ScanInv, Types, Sync, watch, actor
  <2> QED
    BY <1>3, <2>1, ScannerStays DEF actor
<1>4. CASE /\ doing.config \in Roots /\ scanner = None /\ config_file # Unreadable
           /\ Spawn(doing.config)
  <2>1. PICK writes \in BOOLEAN, watches \in BOOLEAN,
             stale \in IF open = {} THEN {None} ELSE open :
          LET s == Fresh(config_file, watches)
              left == IF writes THEN open \ {stale} ELSE open
          IN  /\ Unused(s) # {}
              /\ scanner' = Started(s, writes /\ ~s.paused)
              /\ open' = left \cup ({scanner'.scan_id} \ {None})
    BY <1>4, OutcomesAreBooleans DEF Spawn
  <2> DEFINE s == Fresh(config_file, watches)
  <2>2. s \in Scanner /\ Still(s) /\ ~s.stopping
    BY <1>4, ReadableIs DEF Fresh, Scanner, Still, ScanInv, Types
  <2>3. Unused(s) # {} /\ scanner' = Started(s, writes /\ ~s.paused)
        /\ open' \subseteq open \cup ({scanner'.scan_id} \ {None})
    BY <2>1
  <2>4. s.paused \in BOOLEAN /\ (s.job_pauses > 0 => s.paused /\ s.scan_id = None)
        /\ s.job_pauses = 0
    BY <2>2 DEF Scanner, Still, Fresh
  <2> HIDE DEF s
  <2> DEFINE ok == writes /\ ~s.paused
  <2>a. ok \in BOOLEAN /\ scanner' = Started(s, ok)
    BY <2>3, <2>4
  <2> HIDE DEF ok
  <2>5. scanner' \in Scanner /\ Still(scanner') /\ ~scanner'.stopping /\ open' \subseteq Rows
    <3>1. scanner' \in Scanner /\ Still(scanner') /\ ~scanner'.stopping
          /\ scanner'.scan_id \in Rows \cup {None}
      BY <2>2, <2>3, <2>4, <2>a, StartedIs DEF Still
    <3> QED
      BY <2>3, <3>1 DEF ScanInv, Types
  <2>6. scanner' # None
    BY <2>5, ScannerAssumption
  <2>7. work' = {}
    BY <1>4 DEF ScanInv, WorkIsTagged, Spawn
  <2>8. inbox' \in Seq(Letters)
    BY <1>4 DEF Spawn, Letters
  <2>9. registered' = TRUE
    BY <1>4 DEF Spawn
  <2>10. Types'
    BY <1>0, <2>5, <2>6, <2>7, <2>8, <2>9 DEF ScanInv, Types, Sync, watch
  <2> QED
    BY <2>5, <2>7, <2>10 DEF ScanInv, PausedForJobIsStill, Still, WorkIsTagged
<1> QED
  BY <1>1, <1>2, <1>3, <1>4 DEF Sync

LEMMA HandlerInv == ASSUME ScanInv, HandlePause \/ HandleResume \/ HandleUpdateConfig PROVE ScanInv'
<1>1. /\ scanner' \in Scanner /\ Still(scanner') /\ Outdates(scanner, scanner')
      /\ (scanner'.stopping <=> scanner.stopping)
  BY PauseMoves, ResumeMoves, UpdateConfigMoves
<1>2. scanner # None /\ ~scanner.stopping /\ inbox # <<>> /\ inbox' = Tail(inbox)
  BY DEF HandlePause, HandleResume, HandleUpdateConfig, Handles
<1>3. doing' \in Doing
  BY RepliedIs DEF ScanInv, Types, HandlePause, HandleResume, HandleUpdateConfig
<1>4. open' \subseteq open \cup ({scanner'.scan_id} \ {None})
  <2>1. CASE HandlePause
    BY <2>1 DEF HandlePause, RowsAfterClose
  <2>2. CASE HandleResume
    BY <2>2 DEF HandleResume, RowsAfterClose
  <2>3. CASE HandleUpdateConfig
    BY <2>3 DEF HandleUpdateConfig, RowsAfterClose
  <2> QED
    BY <2>1, <2>2, <2>3
<1>5. open' \subseteq Rows
  BY <1>1, <1>4 DEF ScanInv, Types, Scanner
<1>6. UNCHANGED <<config_file, mounted, edits, watch, mailbox, registered, work, job_state>>
  BY DEF HandlePause, HandleResume, HandleUpdateConfig
<1> QED
  BY <1>1, <1>2, <1>3, <1>5, <1>6, ScannerMoves

LEMMA DispatchInv == ASSUME ScanInv, Dispatch PROVE ScanInv'
<1>1. scanner \in Scanner /\ scanner # None /\ scanner.roots \in Roots
  BY StillHolds DEF Dispatch, Scanner
<1>2. scanner.epoch \in Nat /\ ~scanner.paused
  BY <1>1 DEF Scanner, Dispatch
<1> DEFINE w == [epoch |-> scanner.epoch, roots |-> scanner.roots]
<1>3. w \in Files /\ w.epoch = scanner.epoch /\ w.roots = scanner.roots
  BY <1>1, <1>2 DEF Files
<1>4. work' = work \cup {w}
  BY DEF Dispatch
<1> HIDE DEF w
<1>5. Types'
  BY <1>3, <1>4 DEF ScanInv, Types, Dispatch, watch, supervisor
<1>6. WorkIsTagged'
  BY <1>1, <1>2, <1>3, <1>4 DEF ScanInv, WorkIsTagged, Dispatch
<1> QED
  BY <1>5, <1>6 DEF ScanInv, PausedForJobIsStill, Dispatch

LEMMA HandleResultInv == ASSUME ScanInv, NEW w \in work, HandleResult(w) PROVE ScanInv'
<1>1. Types'
  BY DEF ScanInv, Types, HandleResult, watch, supervisor
<1> QED
  BY <1>1, ScannerStays DEF HandleResult

LEMMA PostStopInv == ASSUME ScanInv, PostStop PROVE ScanInv'
<1>1. open' \subseteq Rows
  BY DEF ScanInv, Types, PostStop, RowsAfterClose
<1>2. Types'
  BY <1>1, RepliedIs DEF ScanInv, Types, PostStop, watch
<1> QED
  BY <1>2 DEF ScanInv, PostStop, PausedForJobIsStill, WorkIsTagged

LEMMA StartJobInv == ASSUME ScanInv, NEW j \in Jobs, StartJob(j) PROVE ScanInv'
<1>1. mailbox' \in Seq(Mail)
  BY DEF ScanInv, Types, StartJob, Mail
<1>2. Types'
  BY <1>1 DEF ScanInv, Types, StartJob, watch, actor
<1> QED
  BY <1>2, ScannerStays DEF StartJob, actor

LEMMA SendResumeInv == ASSUME ScanInv, NEW j \in Jobs, SendResume(j) PROVE ScanInv'
<1>1. mailbox' \in Seq(Mail)
  BY DEF ScanInv, Types, SendResume, Mail
<1>2. Types'
  BY <1>1 DEF ScanInv, Types, SendResume, watch, actor
<1> QED
  BY <1>2, ScannerStays DEF SendResume, actor

LEMMA CancelJobInv == ASSUME ScanInv, NEW j \in Jobs, CancelJob(j) PROVE ScanInv'
<1>1. Types'
  BY DEF ScanInv, Types, CancelJob, watch, supervisor, actor
<1> QED
  BY <1>1, ScannerStays DEF CancelJob, supervisor, actor

LEMMA NextInv == ScanInv /\ [Next]_vars => ScanInv'
<1> SUFFICES ASSUME ScanInv, [Next]_vars PROVE ScanInv'
  OBVIOUS
<1>1. ASSUME NEW config \in Configs, NEW api \in BOOLEAN, Edit(config, api) PROVE ScanInv'
  BY <1>1, EditInv
<1>2. CASE Remount \/ WatcherEvent \/ DebounceEnds \/ ResyncInterval
  BY <1>2, RemountInv, WatcherEventInv, DebounceEndsInv, ResyncIntervalInv
<1>3. CASE Supervise
  BY <1>3, ResyncFromDiskInv, ConfigChangedInv, SyncInv, PauseForJobInv, PauseReplyInv,
     ResumeAfterJobInv DEF Supervise
<1>4. CASE Scan
  BY <1>4, HandlerInv, PostStopInv DEF Scan
<1>5. CASE Dispatch
  BY <1>5, DispatchInv
<1>6. ASSUME NEW w \in work, HandleResult(w) PROVE ScanInv'
  BY <1>6, HandleResultInv
<1>7. ASSUME NEW j \in Jobs, StartJob(j) \/ SendResume(j) \/ CancelJob(j) PROVE ScanInv'
  BY <1>7, StartJobInv, SendResumeInv, CancelJobInv
<1>8. CASE UNCHANGED vars
  <2>1. Types'
    BY <1>8 DEF ScanInv, Types, vars, watch, supervisor, actor
  <2> QED
    BY <1>8, <2>1, ScannerStays DEF vars, actor
<1> QED
  BY <1>1, <1>2, <1>3, <1>4, <1>5, <1>6, <1>7, <1>8 DEF Next

-----------------------------------------------------------------------------
(* The gate of the configuration watcher                                   *)

ResyncQueued == \E i \in DOMAIN mailbox : mailbox[i].type = "resync"

LEMMA QueuedAfterAppend ==
  ASSUME ScanInv, NEW m \in Mail, mailbox' = Append(mailbox, m)
  PROVE  /\ ResyncQueued => ResyncQueued'
         /\ m.type = "resync" => ResyncQueued'
<1>1. mailbox \in Seq(Mail)
  BY DEF ScanInv, Types
<1>2. /\ DOMAIN mailbox = 1..Len(mailbox) /\ Len(mailbox) \in Nat
      /\ DOMAIN mailbox' = 1..(Len(mailbox) + 1)
      /\ \A i \in 1..Len(mailbox) : mailbox'[i] = mailbox[i]
      /\ mailbox'[Len(mailbox) + 1] = m
  BY <1>1, AppendProperties, LenProperties
<1>3. ResyncQueued => ResyncQueued'
  BY <1>2 DEF ResyncQueued
<1>4. m.type = "resync" => ResyncQueued'
  BY <1>2 DEF ResyncQueued
<1> QED
  BY <1>3, <1>4

LEMMA QueuedAfterTail ==
  ASSUME ScanInv, mailbox # <<>>, mailbox' = Tail(mailbox), Head(mailbox).type # "resync",
         ResyncQueued
  PROVE  ResyncQueued'
<1>1. mailbox \in Seq(Mail)
  BY DEF ScanInv, Types
<1>2. /\ DOMAIN mailbox = 1..Len(mailbox) /\ Len(mailbox) \in Nat /\ Len(mailbox) > 0
      /\ DOMAIN mailbox' = 1..(Len(mailbox) - 1)
      /\ \A i \in 1..(Len(mailbox) - 1) : mailbox'[i] = mailbox[i + 1]
      /\ mailbox[1] = Head(mailbox)
  BY <1>1, HeadTailProperties, LenProperties, EmptySeq
<1>3. PICK i \in 1..Len(mailbox) : mailbox[i].type = "resync"
  BY <1>2 DEF ResyncQueued
<1>4. i # 1
  BY <1>2, <1>3
<1>5. i - 1 \in 1..(Len(mailbox) - 1) /\ mailbox'[i - 1] = mailbox[(i - 1) + 1]
  BY <1>2, <1>4
<1>6. (i - 1) + 1 = i
  BY <1>2
<1> QED
  BY <1>2, <1>3, <1>5, <1>6 DEF ResyncQueued

LEMMA GateHolds ==
  ASSUME ScanInv, GateSwallowsNothing, [Next]_vars PROVE GateSwallowsNothing'
<1>0. pending => debounce \/ ResyncQueued
  BY DEF GateSwallowsNothing, ResyncQueued
<1> SUFFICES pending' => debounce' \/ ResyncQueued'
  BY DEF GateSwallowsNothing, ResyncQueued
<1>1. ASSUME UNCHANGED <<pending, debounce, mailbox>>
      PROVE  pending' => debounce' \/ ResyncQueued'
  BY <1>0, <1>1 DEF ResyncQueued
<1>2. ASSUME UNCHANGED <<pending, debounce>>, NEW m \in Mail, mailbox' = Append(mailbox, m)
      PROVE  pending' => debounce' \/ ResyncQueued'
  BY <1>0, <1>2, QueuedAfterAppend
<1>3. ASSUME UNCHANGED <<pending, debounce>>, NEW type, type # "resync", Takes(type),
             mailbox' = Tail(mailbox)
      PROVE  pending' => debounce' \/ ResyncQueued'
  BY <1>0, <1>3, QueuedAfterTail DEF Takes
<1>4. ASSUME NEW config \in Configs, NEW api \in BOOLEAN, Edit(config, api)
      PROVE  pending' => debounce' \/ ResyncQueued'
  <2>1. [type |-> "config"] \in Mail
    BY DEF Mail
  <2> QED
    BY <1>1, <1>2, <1>4, <2>1 DEF Edit
<1>5. CASE Remount
  BY <1>1, <1>5 DEF Remount, watch, supervisor
<1>6. CASE WatcherEvent
  <2>1. debounce' = (debounce \/ ~pending) /\ mailbox' = mailbox
    BY <1>6 DEF WatcherEvent, supervisor
  <2> QED
    BY <1>0, <2>1 DEF ResyncQueued, ScanInv, Types
<1>7. CASE DebounceEnds \/ ResyncInterval
  <2>1. [type |-> "resync"] \in Mail
    BY DEF Mail
  <2>2. mailbox' = Append(mailbox, [type |-> "resync"])
    BY <1>7 DEF DebounceEnds, ResyncInterval
  <2> QED
    BY <2>1, <2>2, QueuedAfterAppend
<1>8. CASE ResyncFromDisk
  BY <1>8 DEF ResyncFromDisk
<1>9. CASE ConfigChanged
  BY <1>3, <1>9 DEF ConfigChanged, watch
<1>10. CASE PauseForJob
  BY <1>3, <1>10 DEF PauseForJob, watch
<1>11. CASE ResumeAfterJob
  BY <1>3, <1>11 DEF ResumeAfterJob, watch
<1>12. CASE Sync \/ PauseReply \/ Scan \/ Dispatch
  BY <1>1, <1>12 DEF Sync, PauseReply, Scan, HandlePause, HandleResume, HandleUpdateConfig,
     PostStop, Dispatch, watch, supervisor
<1>13. ASSUME NEW w \in work, HandleResult(w) PROVE pending' => debounce' \/ ResyncQueued'
  BY <1>1, <1>13 DEF HandleResult, watch, supervisor
<1>14. ASSUME NEW j \in Jobs, StartJob(j) \/ SendResume(j)
       PROVE  pending' => debounce' \/ ResyncQueued'
  <2>1. [type |-> "PauseForJob", job |-> j] \in Mail /\ [type |-> "ResumeAfterJob"] \in Mail
    BY DEF Mail
  <2> QED
    BY <1>2, <1>14, <2>1 DEF StartJob, SendResume, watch
<1>15. ASSUME NEW j \in Jobs, CancelJob(j) PROVE pending' => debounce' \/ ResyncQueued'
  BY <1>1, <1>15 DEF CancelJob, watch, supervisor
<1>16. CASE UNCHANGED vars
  BY <1>1, <1>16 DEF vars, watch, supervisor
<1> QED
  BY <1>4, <1>5, <1>6, <1>7, <1>8, <1>9, <1>10, <1>11, <1>12, <1>13, <1>14, <1>15, <1>16
     DEF Next, Supervise

-----------------------------------------------------------------------------
(* The theorems                                                            *)

(* For any configurations, mounts, jobs and faults: a scanner that a job   *)
(* has paused neither watches nor keeps a record, and a result is written  *)
(* only under the roots that its file was found under (HandlePause,        *)
(* Resume, UpdateConfig and WorkerResult of the scan actor).               *)
THEOREM ScannerIsAlwaysSound == Spec => []ScannerIsSound
<1>1. ScanInv => ScannerIsSound
  BY DEF ScanInv, ScannerIsSound, WritesAreOfTheseRoots, WorkIsTagged, Accepts
<1> QED
  BY <1>1, InitInv, NextInv, PTL DEF Spec

(* However watcher events, debounced tasks and the supervisor's passes     *)
(* interleave, an edit that was seen leads to one more pass                *)
(* (schedule_supervisor_resync and resync_pending).                        *)
THEOREM GateNeverSwallows == Spec => []GateSwallowsNothing
<1>1. Init => GateSwallowsNothing
  BY DEF Init, GateSwallowsNothing
<1>2. ScanInv /\ GateSwallowsNothing /\ [Next]_vars => GateSwallowsNothing'
  BY GateHolds
<1> QED
  BY <1>1, <1>2, InitInv, NextInv, PTL DEF Spec
-----------------------------------------------------------------------------
(* Jobs pause the scan: counting messages                                  *)

Sent(s, type) == {i \in DOMAIN s : s[i].type = type}

HowMany(s, type) == Cardinality(Sent(s, type))

Flag(b) == IF b THEN 1 ELSE 0

LEMMA CountIs ==
  ASSUME NEW S, NEW s \in Seq(S), NEW type
  PROVE  /\ IsFiniteSet(Sent(s, type)) /\ HowMany(s, type) \in Nat
         /\ HowMany(s, type) = 0 <=> Sent(s, type) = {}
<1>1. Sent(s, type) \subseteq 1..Len(s) /\ Len(s) \in Nat
  BY LenProperties DEF Sent
<1>2. IsFiniteSet(1..Len(s))
  BY <1>1, FS_Interval
<1>3. IsFiniteSet(Sent(s, type))
  BY <1>1, <1>2, FS_Subset
<1> QED
  BY <1>3, FS_CardinalityType, FS_EmptySet DEF HowMany

LEMMA CountOfNone == \A s, type : s = <<>> => HowMany(s, type) = 0
<1> SUFFICES ASSUME NEW s, NEW type, s = <<>> PROVE HowMany(s, type) = 0
  OBVIOUS
<1>1. Sent(s, type) = {}
  BY DEF Sent
<1> QED
  BY <1>1, FS_EmptySet DEF HowMany

LEMMA CountAfterAppend ==
  ASSUME NEW S, NEW s \in Seq(S), NEW e \in S, NEW type
  PROVE  HowMany(Append(s, e), type) = HowMany(s, type) + Flag(e.type = type)
<1> DEFINE t == Append(s, e)
           n == Len(s) + 1
<1>1. /\ Len(s) \in Nat /\ DOMAIN s = 1..Len(s) /\ DOMAIN t = 1..n
      /\ \A i \in 1..Len(s) : t[i] = s[i]
      /\ t[n] = e
  BY AppendProperties, LenProperties
<1>2. IsFiniteSet(Sent(s, type)) /\ HowMany(s, type) \in Nat
  BY CountIs
<1>3. n \notin Sent(s, type)
  BY <1>1 DEF Sent
<1> HIDE DEF t
<1>4. CASE e.type = type
  <2>1. Sent(t, type) = Sent(s, type) \cup {n}
    BY <1>1, <1>4 DEF Sent
  <2> QED
    BY <1>2, <1>3, <1>4, <2>1, FS_AddElement DEF HowMany, Flag, t
<1>5. CASE e.type # type
  <2>1. Sent(t, type) = Sent(s, type)
    BY <1>1, <1>5 DEF Sent
  <2> QED
    BY <1>2, <1>5, <2>1 DEF HowMany, Flag, t
<1> QED
  BY <1>4, <1>5

LEMMA CountAfterTail ==
  ASSUME NEW S, NEW s \in Seq(S), s # <<>>, NEW type
  PROVE  HowMany(s, type) = HowMany(Tail(s), type) + Flag(Head(s).type = type)
<1> DEFINE t == Tail(s)
           A == Sent(s, type) \ {1}
           f == [i \in Sent(t, type) |-> i + 1]
<1>1. /\ Len(s) \in Nat /\ Len(s) > 0 /\ DOMAIN s = 1..Len(s) /\ DOMAIN t = 1..(Len(s) - 1)
      /\ \A i \in 1..(Len(s) - 1) : t[i] = s[i + 1]
      /\ s[1] = Head(s) /\ t \in Seq(S)
  BY HeadTailProperties, LenProperties, EmptySeq
<1>2. IsFiniteSet(Sent(s, type)) /\ IsFiniteSet(Sent(t, type)) /\ HowMany(t, type) \in Nat
  BY <1>1, CountIs
<1> HIDE DEF t
<1>3. Cardinality(A) = Cardinality(Sent(t, type))
  <2>1. \A i \in Sent(t, type) : i \in Int /\ i + 1 \in A
    BY <1>1 DEF Sent
  <2>2. \A i \in A : i \in Int /\ i - 1 \in Sent(t, type) /\ (i - 1) + 1 = i
    <3> SUFFICES ASSUME NEW i \in A PROVE i \in Int /\ i - 1 \in Sent(t, type) /\ (i - 1) + 1 = i
      OBVIOUS
    <3>1. i \in 1..Len(s) /\ i # 1 /\ s[i].type = type
      BY <1>1 DEF Sent
    <3>2. i - 1 \in 1..(Len(s) - 1) /\ (i - 1) + 1 = i
      BY <1>1, <3>1
    <3>3. t[i - 1] = s[i]
      BY <1>1, <3>2
    <3> QED
      BY <1>1, <3>1, <3>2, <3>3 DEF Sent
  <2>3. f \in [Sent(t, type) -> A]
    BY <2>1
  <2>4. \A i \in Sent(t, type), k \in Sent(t, type) : f[i] = f[k] => i = k
    BY <2>1
  <2>5. \A i \in A : \E k \in Sent(t, type) : f[k] = i
    BY <2>2
  <2> HIDE DEF f
  <2>6. f \in Bijection(Sent(t, type), A)
    BY <2>3, <2>4, <2>5 DEF Bijection, Injection, Surjection, IsInjective
  <2> QED
    BY <1>2, <2>6, FS_Bijection DEF ExistsBijection
<1>4. 1 \in Sent(s, type) <=> Head(s).type = type
  BY <1>1 DEF Sent
<1>5. CASE Head(s).type = type
  <2>1. A \cup {1} = Sent(s, type) /\ 1 \notin A /\ IsFiniteSet(A)
    BY <1>2, <1>4, <1>5, FS_RemoveElement
  <2>2. Cardinality(Sent(s, type)) = Cardinality(A) + 1
    BY <2>1, FS_AddElement
  <2> QED
    BY <1>3, <1>5, <2>2 DEF HowMany, Flag, t
<1>6. CASE Head(s).type # type
  <2>1. A = Sent(s, type)
    BY <1>4, <1>6
  <2>2. HowMany(s, type) = HowMany(t, type)
    BY <1>3, <2>1 DEF HowMany
  <2>3. Flag(Head(s).type = type) = 0
    BY <1>6 DEF Flag
  <2> QED
    BY <1>2, <2>2, <2>3 DEF t
<1> QED
  BY <1>5, <1>6

-----------------------------------------------------------------------------
(* Jobs pause the scan: the account of the pauses                          *)

(* What JobsPauseTheScan presupposes.                                      *)
Steady == config_file \in Roots /\ faults = 0

(* Jobs that hold a guard, or whose guard's Drop has yet to send.          *)
Holding == {j \in Jobs : job_state[j] \in {"running", "dropped"}}

(* Pauses that were counted and not taken back: of a job that is about to  *)
(* hear of it, that holds its guard, or whose resume is on its way.        *)
Outstanding ==
    Cardinality(Holding) + Flag(doing.type = "paused")
       + HowMany(mailbox, "ResumeAfterJob") + HowMany(inbox, "Resume")

(* While the configuration stays enabled, the first pass of the supervisor *)
(* starts the scanner and none stops it.                                   *)
StaysUp ==
    /\ registered <=> scanner # None
    /\ scanner = None => doing.type = "resync" /\ inbox = <<>>
    /\ doing.type \in {"resync", "single"} => doing.config \in Roots
    /\ scanner # None => scanner.config \in Roots

Asks == {mailbox[i].job : i \in Sent(mailbox, "PauseForJob")}

(* A job asks once, and hears of it once.                                  *)
AskedOnce ==
    /\ \A j \in Asks : job_state[j] = "asking"
    /\ doing.type \in {"pausing", "paused"} => job_state[doing.job] = "asking"
    /\ HowMany(mailbox, "PauseForJob") + Flag(doing.type \in {"pausing", "paused"}) <= 1
    /\ HowMany(inbox, "Pause") = Flag(doing.type = "pausing")

PausesAreCounted ==
    /\ IsFiniteSet(Holding)
    /\ Outstanding = IF scanner = None THEN 0 ELSE scanner.job_pauses

OneOpenRow ==
    IF scanner = None THEN \E row \in Rows : open \subseteq {row} ELSE open = {scanner.scan_id} \ {None}

PauseInv == StaysUp /\ AskedOnce /\ PausesAreCounted /\ OneOpenRow

LEMMA CountsAreNumbers ==
  ASSUME ScanInv, NEW type
  PROVE  HowMany(mailbox, type) \in Nat /\ HowMany(inbox, type) \in Nat
BY CountIs DEF ScanInv, Types

LEMMA Posted ==
  ASSUME ScanInv, NEW m \in Mail, mailbox' = Append(mailbox, m)
  PROVE  /\ \A type : HowMany(mailbox', type) = HowMany(mailbox, type) + Flag(m.type = type)
         /\ \A j \in Asks' : j \in Asks \/ (m.type = "PauseForJob" /\ j = m.job)
<1>1. mailbox \in Seq(Mail)
  BY DEF ScanInv, Types
<1>2. \A type : HowMany(mailbox', type) = HowMany(mailbox, type) + Flag(m.type = type)
  BY <1>1, CountAfterAppend
<1>3. /\ Len(mailbox) \in Nat /\ DOMAIN mailbox = 1..Len(mailbox)
      /\ DOMAIN mailbox' = 1..(Len(mailbox) + 1)
      /\ \A i \in 1..Len(mailbox) : mailbox'[i] = mailbox[i]
      /\ mailbox'[Len(mailbox) + 1] = m
  BY <1>1, AppendProperties, LenProperties
<1> SUFFICES ASSUME NEW i \in Sent(mailbox', "PauseForJob")
             PROVE  mailbox'[i].job \in Asks \/ (m.type = "PauseForJob" /\ mailbox'[i].job = m.job)
  BY <1>2 DEF Asks
<1>4. i \in 1..(Len(mailbox) + 1) /\ mailbox'[i].type = "PauseForJob"
  BY <1>3 DEF Sent
<1>5. CASE i = Len(mailbox) + 1
  BY <1>3, <1>4, <1>5
<1>6. CASE i \in 1..Len(mailbox)
  <2>1. i \in Sent(mailbox, "PauseForJob")
    BY <1>3, <1>4, <1>6 DEF Sent
  <2> QED
    BY <1>3, <1>6, <2>1 DEF Asks
<1> QED
  BY <1>3, <1>4, <1>5, <1>6

LEMMA PickedUp ==
  ASSUME ScanInv, mailbox # <<>>, mailbox' = Tail(mailbox)
  PROVE  /\ \A type : HowMany(mailbox, type) = HowMany(mailbox', type) + Flag(Head(mailbox).type = type)
         /\ Asks' \subseteq Asks
         /\ Head(mailbox).type = "PauseForJob" => Head(mailbox).job \in Asks
<1>1. mailbox \in Seq(Mail)
  BY DEF ScanInv, Types
<1>2. \A type : HowMany(mailbox, type) = HowMany(mailbox', type) + Flag(Head(mailbox).type = type)
  BY <1>1, CountAfterTail
<1>3. /\ Len(mailbox) \in Nat /\ Len(mailbox) > 0 /\ DOMAIN mailbox = 1..Len(mailbox)
      /\ DOMAIN mailbox' = 1..(Len(mailbox) - 1)
      /\ \A i \in 1..(Len(mailbox) - 1) : mailbox'[i] = mailbox[i + 1]
      /\ mailbox[1] = Head(mailbox)
  BY <1>1, HeadTailProperties, LenProperties, EmptySeq
<1>4. Asks' \subseteq Asks
  <2> SUFFICES ASSUME NEW i \in Sent(mailbox', "PauseForJob") PROVE mailbox'[i].job \in Asks
    BY DEF Asks
  <2>1. i \in 1..(Len(mailbox) - 1) /\ mailbox'[i] = mailbox[i + 1] /\ mailbox'[i].type = "PauseForJob"
    BY <1>3 DEF Sent
  <2>2. i + 1 \in Sent(mailbox, "PauseForJob")
    BY <1>3, <2>1 DEF Sent
  <2> QED
    BY <2>1, <2>2 DEF Asks
<1>5. ASSUME Head(mailbox).type = "PauseForJob" PROVE Head(mailbox).job \in Asks
  BY <1>3, <1>5 DEF Asks, Sent
<1> QED
  BY <1>2, <1>4, <1>5

LEMMA NobodyAsks ==
  ASSUME ScanInv, HowMany(mailbox, "PauseForJob") = 0 PROVE Asks = {}
<1>1. Sent(mailbox, "PauseForJob") = {}
  BY CountIs DEF ScanInv, Types
<1> QED
  BY <1>1 DEF Asks

(* An account of one who has no part in it.                                *)
LEMMA BystanderKeeps ==
  ASSUME ScanInv, PauseInv,
         mailbox' = mailbox
         \/ \E m \in Mail : m.type \in {"config", "resync"} /\ mailbox' = Append(mailbox, m),
         UNCHANGED <<doing, registered, scanner, inbox, open, job_state>>
  PROVE  PauseInv'
<1>1. /\ HowMany(mailbox', "PauseForJob") = HowMany(mailbox, "PauseForJob")
      /\ HowMany(mailbox', "ResumeAfterJob") = HowMany(mailbox, "ResumeAfterJob")
      /\ Asks' \subseteq Asks
  <2>1. CASE mailbox' = mailbox
    BY <2>1 DEF Asks
  <2>2. ASSUME NEW m \in Mail, m.type \in {"config", "resync"}, mailbox' = Append(mailbox, m)
        PROVE  /\ HowMany(mailbox', "PauseForJob") = HowMany(mailbox, "PauseForJob")
               /\ HowMany(mailbox', "ResumeAfterJob") = HowMany(mailbox, "ResumeAfterJob")
               /\ Asks' \subseteq Asks
    <3>1. Flag(m.type = "PauseForJob") = 0 /\ Flag(m.type = "ResumeAfterJob") = 0
      BY <2>2 DEF Flag
    <3>2. /\ HowMany(mailbox', "PauseForJob") = HowMany(mailbox, "PauseForJob") + 0
          /\ HowMany(mailbox', "ResumeAfterJob") = HowMany(mailbox, "ResumeAfterJob") + 0
          /\ Asks' \subseteq Asks
      BY <2>2, <3>1, Posted
    <3> QED
      BY <3>2, CountsAreNumbers
  <2> QED
    BY <2>1, <2>2
<1>2. StaysUp' /\ OneOpenRow'
  BY DEF PauseInv, StaysUp, OneOpenRow
<1>3. AskedOnce'
  BY <1>1 DEF PauseInv, AskedOnce
<1>4. Holding' = Holding
  BY DEF Holding
<1>5. PausesAreCounted'
  BY <1>1, <1>4 DEF PauseInv, PausesAreCounted, Outstanding
<1> QED
  BY <1>2, <1>3, <1>5 DEF PauseInv

LEMMA AskersAreJobs == ASSUME ScanInv PROVE Asks \subseteq Jobs
<1>1. mailbox \in Seq(Mail)
  BY DEF ScanInv, Types
<1> SUFFICES ASSUME NEW i \in Sent(mailbox, "PauseForJob") PROVE mailbox[i].job \in Jobs
  BY DEF Asks
<1>2. mailbox[i] \in Mail /\ mailbox[i].type = "PauseForJob"
  BY <1>1, ElementOfSeq, LenProperties DEF Sent
<1> QED
  BY <1>2 DEF Mail

LEMMA DoingIs ==
  ASSUME ScanInv
  PROVE  /\ doing.type \in {"pausing", "paused"} => doing.job \in Jobs
         /\ doing = Idle => doing.type = "idle"
BY DEF ScanInv, Types, Doing, Idle

LEMMA StartJobCounts ==
  ASSUME ScanInv, PauseInv, NEW j \in Jobs, StartJob(j) PROVE PauseInv'
<1>1. /\ \A k \in Jobs : job_state[k] # "asking"
      /\ job_state' = [job_state EXCEPT ![j] = "asking"] /\ job_state[j] = "queued"
      /\ UNCHANGED <<doing, registered, scanner, inbox, open>>
      /\ job_state \in [Jobs -> {"queued", "asking", "running", "dropped", "ended"}]
  BY DEF StartJob, actor, ScanInv, Types
<1> DEFINE m == [type |-> "PauseForJob", job |-> j]
<1>2. m \in Mail /\ m.type = "PauseForJob" /\ m.job = j /\ mailbox' = Append(mailbox, m)
  BY DEF Mail, StartJob
<1> HIDE DEF m
<1>3. Asks = {} /\ doing.type \notin {"pausing", "paused"}
  BY <1>1, AskersAreJobs, DoingIs DEF PauseInv, AskedOnce
<1>4. HowMany(mailbox, "PauseForJob") = 0
  <2>1. Sent(mailbox, "PauseForJob") = {}
    BY <1>3 DEF Asks
  <2> QED
    BY <2>1, CountIs DEF ScanInv, Types
<1>5. /\ HowMany(mailbox', "PauseForJob") = 1
      /\ HowMany(mailbox', "ResumeAfterJob") = HowMany(mailbox, "ResumeAfterJob")
      /\ Asks' \subseteq {j}
  <2>1. Flag(m.type = "PauseForJob") = 1 /\ Flag(m.type = "ResumeAfterJob") = 0
    BY <1>2 DEF Flag
  <2>2. /\ HowMany(mailbox', "PauseForJob") = HowMany(mailbox, "PauseForJob") + 1
        /\ HowMany(mailbox', "ResumeAfterJob") = HowMany(mailbox, "ResumeAfterJob") + 0
        /\ Asks' \subseteq {j}
    BY <1>2, <1>3, <2>1, Posted
  <2> QED
    BY <1>4, <2>2, CountsAreNumbers
<1>6. AskedOnce'
  BY <1>1, <1>3, <1>5 DEF PauseInv, AskedOnce, Flag
<1>7. Holding' = Holding
  BY <1>1 DEF Holding
<1>8. PausesAreCounted'
  BY <1>1, <1>5, <1>7 DEF PauseInv, PausesAreCounted, Outstanding
<1> QED
  BY <1>1, <1>6, <1>8 DEF PauseInv, StaysUp, OneOpenRow

LEMMA SendResumeCounts ==
  ASSUME ScanInv, PauseInv, NEW j \in Jobs, SendResume(j) PROVE PauseInv'
<1>1. /\ job_state' = [job_state EXCEPT ![j] = "ended"] /\ job_state[j] \in {"running", "dropped"}
      /\ UNCHANGED <<doing, registered, scanner, inbox, open>>
      /\ job_state \in [Jobs -> {"queued", "asking", "running", "dropped", "ended"}]
  BY DEF SendResume, actor, ScanInv, Types
<1> DEFINE m == [type |-> "ResumeAfterJob"]
<1>2. m \in Mail /\ m.type = "ResumeAfterJob" /\ mailbox' = Append(mailbox, m)
  BY DEF Mail, SendResume
<1> HIDE DEF m
<1>3. /\ HowMany(mailbox', "PauseForJob") = HowMany(mailbox, "PauseForJob")
      /\ HowMany(mailbox', "ResumeAfterJob") = HowMany(mailbox, "ResumeAfterJob") + 1
      /\ Asks' \subseteq Asks
  <2>1. Flag(m.type = "PauseForJob") = 0 /\ Flag(m.type = "ResumeAfterJob") = 1
    BY <1>2 DEF Flag
  <2>2. /\ HowMany(mailbox', "PauseForJob") = HowMany(mailbox, "PauseForJob") + 0
        /\ HowMany(mailbox', "ResumeAfterJob") = HowMany(mailbox, "ResumeAfterJob") + 1
        /\ Asks' \subseteq Asks
    BY <1>2, <2>1, Posted
  <2> QED
    BY <2>2, CountsAreNumbers
<1>4. AskedOnce'
  <2>1. \A k \in Jobs : job_state[k] = "asking" => job_state'[k] = "asking"
    BY <1>1
  <2>2. Asks \subseteq Jobs /\ (doing.type \in {"pausing", "paused"} => doing.job \in Jobs)
    BY AskersAreJobs, DoingIs
  <2> QED
    BY <1>1, <1>3, <2>1, <2>2 DEF PauseInv, AskedOnce
<1>5. Holding' = Holding \ {j} /\ j \in Holding
  BY <1>1 DEF Holding
<1>6. /\ IsFiniteSet(Holding') /\ Cardinality(Holding') = Cardinality(Holding) - 1
      /\ Cardinality(Holding) \in Nat
  BY <1>5, FS_RemoveElement, FS_CardinalityType DEF PauseInv, PausesAreCounted
<1>7. Outstanding' = Outstanding
  <2>1. Flag(doing.type = "paused") \in Nat
    BY DEF Flag
  <2> HIDE DEF Flag
  <2> QED
    BY <1>1, <1>3, <1>6, <2>1, CountsAreNumbers DEF Outstanding
<1>8. PausesAreCounted'
  BY <1>1, <1>6, <1>7 DEF PauseInv, PausesAreCounted
<1> QED
  BY <1>1, <1>4, <1>8 DEF PauseInv, StaysUp, OneOpenRow

LEMMA CancelJobCounts ==
  ASSUME ~CancelAsking, ScanInv, PauseInv, NEW j \in Jobs, CancelJob(j) PROVE PauseInv'
<1>1. /\ job_state' = [job_state EXCEPT ![j] = "dropped"] /\ job_state[j] = "running"
      /\ UNCHANGED <<mailbox, doing, registered, scanner, inbox, open>>
      /\ job_state \in [Jobs -> {"queued", "asking", "running", "dropped", "ended"}]
  BY DEF CancelJob, supervisor, actor, ScanInv, Types
<1>2. Asks' = Asks
  BY <1>1 DEF Asks
<1>3. AskedOnce'
  <2>1. \A k \in Jobs : job_state[k] = "asking" => job_state'[k] = "asking"
    BY <1>1
  <2>2. Asks \subseteq Jobs /\ (doing.type \in {"pausing", "paused"} => doing.job \in Jobs)
    BY AskersAreJobs, DoingIs
  <2> QED
    BY <1>1, <1>2, <2>1, <2>2 DEF PauseInv, AskedOnce
<1>4. Holding' = Holding
  BY <1>1 DEF Holding
<1>5. PausesAreCounted'
  BY <1>1, <1>4 DEF PauseInv, PausesAreCounted, Outstanding
<1> QED
  BY <1>1, <1>3, <1>5 DEF PauseInv, StaysUp, OneOpenRow

LEMMA ReadsCount ==
  ASSUME ScanInv, PauseInv, Steady, ResyncFromDisk \/ ConfigChanged PROVE PauseInv'
<1>1. /\ doing = Idle /\ mailbox # <<>> /\ Head(mailbox).type \in {"resync", "config"}
      /\ mailbox' = Tail(mailbox)
      /\ doing' = [type |-> "resync", config |-> config_file]
         \/ doing' = [type |-> "single", config |-> config_file]
      /\ UNCHANGED <<registered, scanner, inbox, open, job_state>>
  BY ConfigsAssumption DEF ResyncFromDisk, ConfigChanged, Takes, actor, Steady
<1>2. /\ HowMany(mailbox', "PauseForJob") = HowMany(mailbox, "PauseForJob")
      /\ HowMany(mailbox', "ResumeAfterJob") = HowMany(mailbox, "ResumeAfterJob")
      /\ Asks' \subseteq Asks
  <2>1. Flag(Head(mailbox).type = "PauseForJob") = 0 /\ Flag(Head(mailbox).type = "ResumeAfterJob") = 0
    BY <1>1 DEF Flag
  <2>2. /\ HowMany(mailbox, "PauseForJob") = HowMany(mailbox', "PauseForJob") + 0
        /\ HowMany(mailbox, "ResumeAfterJob") = HowMany(mailbox', "ResumeAfterJob") + 0
        /\ Asks' \subseteq Asks
    BY <1>1, <2>1, PickedUp
  <2>3. mailbox' \in Seq(Mail)
    BY <1>1, HeadTailProperties DEF ScanInv, Types
  <2>4. HowMany(mailbox', "PauseForJob") \in Nat /\ HowMany(mailbox', "ResumeAfterJob") \in Nat
    BY <2>3, CountIs
  <2> QED
    BY <2>2, <2>4
<1>3. doing.type = "idle" /\ doing'.type \in {"resync", "single"} /\ doing'.config \in Roots
  BY <1>1, DoingIs DEF Steady
<1>4. scanner # None
  BY <1>3 DEF PauseInv, StaysUp
<1>5. StaysUp' /\ AskedOnce'
  BY <1>1, <1>2, <1>3, <1>4 DEF PauseInv, StaysUp, AskedOnce, Flag
<1>6. Holding' = Holding
  BY <1>1 DEF Holding
<1>7. Outstanding' = Outstanding
  BY <1>1, <1>2, <1>3, <1>6 DEF Outstanding, Flag
<1> QED
  BY <1>1, <1>5, <1>6, <1>7 DEF PauseInv, PausesAreCounted, OneOpenRow

LEMMA PauseForJobCounts ==
  ASSUME ScanInv, PauseInv, PauseForJob PROVE PauseInv'
<1> DEFINE j == Head(mailbox).job
           m == [type |-> "Pause"]
<1>1. /\ doing = Idle /\ mailbox # <<>> /\ Head(mailbox).type = "PauseForJob"
      /\ mailbox' = Tail(mailbox)
      /\ UNCHANGED <<registered, scanner, open, job_state>>
  BY DEF PauseForJob, Takes
<1>2. doing.type = "idle"
  BY <1>1, DoingIs
<1>3. registered /\ scanner # None
  BY <1>2 DEF PauseInv, StaysUp
<1>4. doing' = [type |-> "pausing", job |-> j] /\ inbox' = Append(inbox, m)
  BY <1>3 DEF PauseForJob
<1>5. doing'.type = "pausing" /\ doing'.job = j
  BY <1>4
<1>6. job_state[j] = "asking"
  BY <1>1, PickedUp DEF PauseInv, AskedOnce
<1>7. /\ HowMany(mailbox', "PauseForJob") = 0
      /\ HowMany(mailbox', "ResumeAfterJob") = HowMany(mailbox, "ResumeAfterJob")
      /\ Asks' \subseteq Asks
  <2>1. Flag(Head(mailbox).type = "PauseForJob") = 1 /\ Flag(Head(mailbox).type = "ResumeAfterJob") = 0
    BY <1>1 DEF Flag
  <2>2. /\ HowMany(mailbox, "PauseForJob") = HowMany(mailbox', "PauseForJob") + 1
        /\ HowMany(mailbox, "ResumeAfterJob") = HowMany(mailbox', "ResumeAfterJob") + 0
        /\ Asks' \subseteq Asks
    BY <1>1, <2>1, PickedUp
  <2>3. mailbox' \in Seq(Mail)
    BY <1>1, HeadTailProperties DEF ScanInv, Types
  <2>4. HowMany(mailbox', "PauseForJob") \in Nat /\ HowMany(mailbox', "ResumeAfterJob") \in Nat
    BY <2>3, CountIs
  <2>5. HowMany(mailbox, "PauseForJob") + 0 <= 1
    BY <1>2 DEF PauseInv, AskedOnce, Flag
  <2> QED
    BY <2>2, <2>4, <2>5, CountsAreNumbers
<1>8. /\ HowMany(inbox', "Pause") = 1
      /\ HowMany(inbox', "Resume") = HowMany(inbox, "Resume")
  <2> HIDE DEF m
  <2>1. m \in Letters /\ m.type = "Pause"
    BY DEF m, Letters
  <2>2. inbox \in Seq(Letters)
    BY DEF ScanInv, Types
  <2>3. /\ HowMany(inbox', "Pause") = HowMany(inbox, "Pause") + Flag(m.type = "Pause")
        /\ HowMany(inbox', "Resume") = HowMany(inbox, "Resume") + Flag(m.type = "Resume")
    BY <1>4, <2>1, <2>2, CountAfterAppend
  <2>4. HowMany(inbox, "Pause") = 0
    BY <1>2 DEF PauseInv, AskedOnce, Flag
  <2> QED
    BY <2>1, <2>3, <2>4, CountsAreNumbers DEF Flag
<1>9. AskedOnce'
  BY <1>1, <1>5, <1>6, <1>7, <1>8 DEF PauseInv, AskedOnce, Flag
<1>10. Holding' = Holding
  BY <1>1 DEF Holding
<1>11. Outstanding' = Outstanding
  BY <1>1, <1>2, <1>5, <1>7, <1>8, <1>10 DEF Outstanding, Flag
<1> QED
  BY <1>1, <1>3, <1>5, <1>9, <1>10, <1>11 DEF PauseInv, PausesAreCounted, OneOpenRow, StaysUp

LEMMA PauseReplyCounts ==
  ASSUME ScanInv, PauseInv, PauseReply PROVE PauseInv'
<1> DEFINE j == doing.job
<1>1. /\ doing.type = "paused" /\ doing' = Idle
      /\ job_state' = [job_state EXCEPT ![j] = IF @ = "asking" THEN "running" ELSE @]
      /\ UNCHANGED <<mailbox, registered, scanner, inbox, open>>
      /\ job_state \in [Jobs -> {"queued", "asking", "running", "dropped", "ended"}]
  BY DEF PauseReply, actor, ScanInv, Types
<1>2. j \in Jobs /\ doing'.type = "idle"
  BY <1>1, DoingIs DEF Idle
<1>3. job_state[j] = "asking" /\ scanner # None
  BY <1>1 DEF PauseInv, AskedOnce, StaysUp
<1>4. job_state' = [job_state EXCEPT ![j] = "running"]
  BY <1>1, <1>2, <1>3
<1>5. HowMany(mailbox, "PauseForJob") = 0
  BY <1>1, CountsAreNumbers DEF PauseInv, AskedOnce, Flag
<1>6. Asks' = {}
  BY <1>1, <1>5, NobodyAsks DEF Asks
<1>7. AskedOnce' /\ StaysUp' /\ OneOpenRow'
  BY <1>1, <1>2, <1>3, <1>5, <1>6 DEF PauseInv, AskedOnce, StaysUp, OneOpenRow, Flag
<1>8. Holding' = Holding \cup {j} /\ j \notin Holding
  BY <1>1, <1>2, <1>3, <1>4 DEF Holding
<1>9. /\ IsFiniteSet(Holding') /\ Cardinality(Holding') = Cardinality(Holding) + 1
      /\ Cardinality(Holding) \in Nat
  BY <1>8, FS_AddElement, FS_CardinalityType DEF PauseInv, PausesAreCounted
<1>10. Flag(doing.type = "paused") = 1 /\ Flag(doing'.type = "paused") = 0
  BY <1>1, <1>2 DEF Flag
<1>11. Outstanding' = Outstanding
  BY <1>1, <1>9, <1>10, CountsAreNumbers DEF Outstanding
<1> QED
  BY <1>1, <1>7, <1>9, <1>11 DEF PauseInv, PausesAreCounted

LEMMA ResumeAfterJobCounts ==
  ASSUME ScanInv, PauseInv, ResumeAfterJob PROVE PauseInv'
<1> DEFINE m == [type |-> "Resume"]
<1>1. /\ doing = Idle /\ mailbox # <<>> /\ Head(mailbox).type = "ResumeAfterJob"
      /\ mailbox' = Tail(mailbox)
      /\ UNCHANGED <<registered, scanner, open, job_state>>
  BY DEF ResumeAfterJob, Takes
<1>2. doing.type = "idle"
  BY <1>1, DoingIs
<1>3. registered /\ scanner # None
  BY <1>2 DEF PauseInv, StaysUp
<1>4. doing' = doing /\ inbox' = Append(inbox, m)
  BY <1>3 DEF ResumeAfterJob
<1>5. /\ HowMany(mailbox', "PauseForJob") = HowMany(mailbox, "PauseForJob")
      /\ HowMany(mailbox, "ResumeAfterJob") = HowMany(mailbox', "ResumeAfterJob") + 1
      /\ HowMany(mailbox', "ResumeAfterJob") \in Nat
      /\ Asks' \subseteq Asks
  <2>1. Flag(Head(mailbox).type = "PauseForJob") = 0 /\ Flag(Head(mailbox).type = "ResumeAfterJob") = 1
    BY <1>1 DEF Flag
  <2>2. /\ HowMany(mailbox, "PauseForJob") = HowMany(mailbox', "PauseForJob") + 0
        /\ HowMany(mailbox, "ResumeAfterJob") = HowMany(mailbox', "ResumeAfterJob") + 1
        /\ Asks' \subseteq Asks
    BY <1>1, <2>1, PickedUp
  <2>3. mailbox' \in Seq(Mail)
    BY <1>1, HeadTailProperties DEF ScanInv, Types
  <2>4. HowMany(mailbox', "PauseForJob") \in Nat /\ HowMany(mailbox', "ResumeAfterJob") \in Nat
    BY <2>3, CountIs
  <2> QED
    BY <2>2, <2>4
<1>6. /\ HowMany(inbox', "Pause") = HowMany(inbox, "Pause")
      /\ HowMany(inbox', "Resume") = HowMany(inbox, "Resume") + 1
  <2> HIDE DEF m
  <2>1. m \in Letters /\ m.type = "Resume"
    BY DEF m, Letters
  <2>2. inbox \in Seq(Letters)
    BY DEF ScanInv, Types
  <2>3. /\ HowMany(inbox', "Pause") = HowMany(inbox, "Pause") + Flag(m.type = "Pause")
        /\ HowMany(inbox', "Resume") = HowMany(inbox, "Resume") + Flag(m.type = "Resume")
    BY <1>4, <2>1, <2>2, CountAfterAppend
  <2> QED
    BY <2>1, <2>3, CountsAreNumbers DEF Flag
<1>7. AskedOnce' /\ StaysUp' /\ OneOpenRow'
  BY <1>1, <1>3, <1>4, <1>5, <1>6 DEF PauseInv, AskedOnce, StaysUp, OneOpenRow
<1>8. Holding' = Holding
  BY <1>1 DEF Holding
<1>9. Cardinality(Holding) \in Nat /\ Flag(doing.type = "paused") \in Nat
  BY FS_CardinalityType DEF PauseInv, PausesAreCounted, Flag
<1>10. Outstanding' = Outstanding
  <2> HIDE DEF Flag
  <2> QED
    BY <1>4, <1>5, <1>6, <1>8, <1>9, CountsAreNumbers DEF Outstanding
<1> QED
  BY <1>1, <1>7, <1>8, <1>10 DEF PauseInv, PausesAreCounted

LEMMA NoFault == ASSUME faults = 0, faults' = 0, NEW X, CountFaults(X) PROVE FALSE \notin X
<1> SUFFICES ASSUME FALSE \in X PROVE FALSE
  OBVIOUS
<1>1. faults' = faults + 1
  BY DEF CountFaults
<1> QED
  BY <1>1

LEMMA SyncCounts ==
  ASSUME ScanInv, PauseInv, Steady, Steady', Sync PROVE PauseInv'
<1>1. /\ doing.type \in {"resync", "single"} /\ doing' = Idle /\ doing'.type = "idle"
      /\ doing.config \in Roots /\ UNCHANGED <<mailbox, job_state>>
  BY DEF Sync, Idle, PauseInv, StaysUp
<1>2. Asks' = Asks /\ Holding' = Holding
  BY <1>1 DEF Asks, Holding
<1>3. /\ Flag(doing.type = "paused") = 0 /\ Flag(doing'.type = "paused") = 0
      /\ Flag(doing.type = "pausing") = 0 /\ Flag(doing'.type = "pausing") = 0
      /\ Flag(doing'.type \in {"pausing", "paused"}) = Flag(doing.type \in {"pausing", "paused"})
  BY <1>1 DEF Flag
<1>4. inbox \in Seq(Letters)
  BY DEF ScanInv, Types
<1>5. CASE registered
  <2> DEFINE m == [type |-> "UpdateConfig", config |-> doing.config]
  <2>1. /\ inbox' = Append(inbox, m)
        /\ UNCHANGED <<registered, scanner, work, open, faults>>
    BY <1>1, <1>5 DEF Sync
  <2>2. m \in Letters /\ m.type = "UpdateConfig"
    BY <1>1 DEF Letters
  <2> HIDE DEF m
  <2>3. /\ HowMany(inbox', "Pause") = HowMany(inbox, "Pause") + Flag(m.type = "Pause")
        /\ HowMany(inbox', "Resume") = HowMany(inbox, "Resume") + Flag(m.type = "Resume")
    BY <1>4, <2>1, <2>2, CountAfterAppend
  <2>4. /\ HowMany(inbox', "Pause") = HowMany(inbox, "Pause")
        /\ HowMany(inbox', "Resume") = HowMany(inbox, "Resume")
    BY <2>2, <2>3, CountsAreNumbers DEF Flag
  <2>5. scanner # None
    BY <1>5 DEF PauseInv, StaysUp
  <2>6. StaysUp' /\ OneOpenRow'
    BY <1>1, <2>1, <2>5 DEF PauseInv, StaysUp, OneOpenRow
  <2>7. AskedOnce'
    BY <1>1, <1>2, <1>3, <2>4 DEF PauseInv, AskedOnce
  <2>8. Outstanding' = Outstanding
    BY <1>1, <1>2, <1>3, <2>4 DEF Outstanding
  <2> QED
    BY <1>2, <2>1, <2>6, <2>7, <2>8 DEF PauseInv, PausesAreCounted
<1>6. CASE ~registered
  <2>1. scanner = None /\ inbox = <<>> /\ Spawn(doing.config)
    BY <1>1, <1>6, ConfigsAssumption DEF Sync, PauseInv, StaysUp, Steady
  <2> DEFINE m == [type |-> "UpdateConfig", config |-> doing.config]
  <2>2. PICK writes \in Outcomes, watches \in Outcomes,
             stale \in IF open = {} THEN {None} ELSE open :
          LET s == Fresh(config_file, watches)
              left == IF writes THEN open \ {stale} ELSE open
          IN  /\ Unused(s) # {}
              /\ scanner' = Started(s, writes /\ ~s.paused)
              /\ open' = left \cup ({scanner'.scan_id} \ {None})
              /\ CountFaults({writes, watches})
    BY <2>1 DEF Spawn
  <2>a. writes \in BOOLEAN /\ watches \in BOOLEAN
    BY OutcomesAreBooleans
  <2>3. inbox' = <<m>> /\ registered' = TRUE
    BY <2>1 DEF Spawn
  <2>4. writes = TRUE
    BY <2>2, <2>a, NoFault DEF Steady
  <2> DEFINE s == Fresh(config_file, watches)
             ok == writes /\ ~s.paused
  <2>5. /\ s \in Scanner /\ s.job_pauses = 0 /\ s.config \in Roots /\ s.scan_id = None
        /\ ok \in BOOLEAN
    BY <2>a DEF Fresh, Scanner, Steady, ScanInv, Types
  <2>6. Unused(s) # {} /\ scanner' = Started(s, ok)
    BY <2>2
  <2>7. open' = {scanner'.scan_id} \ {None}
    <3>1. PICK row \in Rows : open \subseteq {row}
      BY <2>1 DEF PauseInv, OneOpenRow
    <3>2. open \ {stale} = {}
      BY <3>1
    <3> QED
      BY <2>2, <2>4, <3>2
  <2> HIDE DEF s, ok
  <2>8. scanner' \in Scanner /\ scanner'.job_pauses = 0 /\ scanner'.config \in Roots
    <3>1. scanner' \in Scanner /\ scanner'.job_pauses = 0
      BY <2>5, <2>6, StartedIs
    <3>2. scanner'.config = s.config
      BY <2>5, <2>6 DEF Started, Scanner
    <3> QED
      BY <2>5, <3>1, <3>2
  <2>9. scanner' # None
    BY <2>8, ScannerAssumption
  <2>10. HowMany(inbox', "Pause") = 0 /\ HowMany(inbox', "Resume") = 0
    <3>1. inbox' = Append(inbox, m)
      BY <2>1, <2>3
    <3>2. m \in Letters /\ m.type = "UpdateConfig"
      BY <1>1 DEF Letters
    <3> HIDE DEF m
    <3>3. /\ HowMany(inbox', "Pause") = HowMany(inbox, "Pause") + Flag(m.type = "Pause")
          /\ HowMany(inbox', "Resume") = HowMany(inbox, "Resume") + Flag(m.type = "Resume")
      BY <1>4, <3>1, <3>2, CountAfterAppend
    <3> QED
      BY <2>1, <3>2, <3>3, CountOfNone DEF Flag
  <2>11. HowMany(inbox, "Pause") = 0 /\ HowMany(inbox, "Resume") = 0
    BY <2>1, CountOfNone
  <2>12. AskedOnce'
    BY <1>1, <1>2, <1>3, <2>10 DEF PauseInv, AskedOnce
  <2>13. StaysUp' /\ OneOpenRow'
    BY <1>1, <2>3, <2>7, <2>8, <2>9 DEF PauseInv, StaysUp, OneOpenRow
  <2>14. Outstanding' = 0
    BY <1>1, <1>2, <1>3, <2>1, <2>10, <2>11 DEF PauseInv, PausesAreCounted, Outstanding
  <2> QED
    BY <1>2, <2>8, <2>9, <2>12, <2>13, <2>14 DEF PauseInv, PausesAreCounted
<1> QED
  BY <1>5, <1>6

LEMMA Delivered ==
  ASSUME ScanInv, inbox # <<>>, inbox' = Tail(inbox)
  PROVE  \A type : /\ HowMany(inbox, type) = HowMany(inbox', type) + Flag(Head(inbox).type = type)
                   /\ HowMany(inbox', type) \in Nat
<1>1. inbox \in Seq(Letters) /\ Tail(inbox) \in Seq(Letters)
  BY HeadTailProperties DEF ScanInv, Types
<1> QED
  BY <1>1, CountAfterTail, CountIs

LEMMA HandlerFacts ==
  ASSUME ScanInv, PauseInv, NEW type, Handles(type)
  PROVE  /\ scanner \in Scanner /\ scanner # None /\ Still(scanner) /\ registered
         /\ scanner.config \in Roots /\ open = {scanner.scan_id} \ {None}
         /\ scanner.job_pauses \in Nat /\ scanner.job_pauses = Outstanding
BY StillHolds DEF Handles, PauseInv, StaysUp, PausesAreCounted, OneOpenRow, Scanner

(* A handler other than that of Pause.                                     *)
LEMMA HandlerCounts ==
  ASSUME ScanInv, PauseInv, NEW type, type \in {"Resume", "UpdateConfig"}, Handles(type),
         scanner' \in Scanner, scanner'.config \in Roots, open' = {scanner'.scan_id} \ {None},
         scanner.job_pauses = scanner'.job_pauses + Flag(type = "Resume"),
         UNCHANGED <<doing, mailbox, registered, job_state>>
  PROVE  PauseInv'
<1>1. inbox # <<>> /\ inbox' = Tail(inbox) /\ Head(inbox).type = type /\ registered
  BY HandlerFacts DEF Handles
<1>2. /\ HowMany(inbox', "Pause") = HowMany(inbox, "Pause")
      /\ HowMany(inbox, "Resume") = HowMany(inbox', "Resume") + Flag(type = "Resume")
      /\ HowMany(inbox', "Resume") \in Nat
  <2>1. Flag(Head(inbox).type = "Pause") = 0
    BY <1>1 DEF Flag
  <2>2. /\ HowMany(inbox, "Pause") = HowMany(inbox', "Pause") + 0
        /\ HowMany(inbox, "Resume") = HowMany(inbox', "Resume") + Flag(type = "Resume")
        /\ HowMany(inbox', "Pause") \in Nat /\ HowMany(inbox', "Resume") \in Nat
    BY <1>1, <2>1, Delivered
  <2> QED
    BY <2>2
<1>3. scanner' # None
  BY ScannerAssumption
<1>4. Asks' = Asks /\ Holding' = Holding
  BY DEF Asks, Holding
<1>5. AskedOnce' /\ StaysUp' /\ OneOpenRow'
  BY <1>1, <1>2, <1>3, <1>4 DEF PauseInv, AskedOnce, StaysUp, OneOpenRow
<1>6. Cardinality(Holding) \in Nat /\ Flag(doing.type = "paused") \in Nat /\ Flag(type = "Resume") \in Nat
  BY FS_CardinalityType DEF PauseInv, PausesAreCounted, Flag
<1>7. scanner.job_pauses = Outstanding /\ scanner'.job_pauses \in Nat
  BY HandlerFacts DEF Scanner
<1>8. Outstanding' = scanner'.job_pauses
  <2> HIDE DEF Flag
  <2> QED
    BY <1>2, <1>4, <1>6, <1>7, CountsAreNumbers DEF Outstanding
<1> QED
  BY <1>3, <1>4, <1>5, <1>8 DEF PauseInv, PausesAreCounted

LEMMA PauseCounts ==
  ASSUME ScanInv, PauseInv, Steady, Steady', HandlePause PROVE PauseInv'
<1>1. /\ Handles("Pause") /\ inbox # <<>> /\ inbox' = Tail(inbox) /\ Head(inbox).type = "Pause"
      /\ doing' = Replied /\ UNCHANGED <<mailbox, registered, job_state>>
  BY DEF HandlePause, Handles
<1>2. /\ scanner \in Scanner /\ scanner # None /\ registered /\ scanner.config \in Roots
      /\ open = {scanner.scan_id} \ {None}
      /\ scanner.job_pauses \in Nat /\ scanner.job_pauses = Outstanding
  BY <1>1, HandlerFacts
<1>3. /\ HowMany(inbox, "Pause") = HowMany(inbox', "Pause") + 1
      /\ HowMany(inbox', "Pause") \in Nat
      /\ HowMany(inbox', "Resume") = HowMany(inbox, "Resume")
  <2>1. Flag(Head(inbox).type = "Pause") = 1 /\ Flag(Head(inbox).type = "Resume") = 0
    BY <1>1 DEF Flag
  <2>2. /\ HowMany(inbox, "Pause") = HowMany(inbox', "Pause") + 1
        /\ HowMany(inbox, "Resume") = HowMany(inbox', "Resume") + 0
        /\ HowMany(inbox', "Pause") \in Nat /\ HowMany(inbox', "Resume") \in Nat
    BY <1>1, <2>1, Delivered
  <2> QED
    BY <2>2
<1>4. doing.type = "pausing" /\ HowMany(inbox', "Pause") = 0
  BY <1>3 DEF PauseInv, AskedOnce, Flag
<1>5. doing'.type = "paused" /\ doing'.job = doing.job
  <2>1. doing \in [type : {"pausing", "paused"}, job : Jobs]
    BY <1>4 DEF ScanInv, Types, Doing
  <2>2. doing' = [doing EXCEPT !.type = "paused"]
    BY <1>1, <1>4 DEF Replied
  <2> QED
    BY <2>1, <2>2
<1>6. PICK writes \in Outcomes :
        /\ scanner' = Closed([scanner EXCEPT !.paused = TRUE, !.job_pauses = @ + 1,
                                             !.epoch = @ + 1, !.watching = FALSE])
        /\ open' = RowsAfterClose(scanner, writes)
        /\ CountFaults({writes})
  BY DEF HandlePause
<1>7. writes = TRUE
  BY <1>6, NoFault, OutcomesAreBooleans DEF Steady
<1>8. open' = {}
  BY <1>2, <1>6, <1>7 DEF RowsAfterClose
<1>9. /\ scanner'.job_pauses = scanner.job_pauses + 1
      /\ scanner'.config = scanner.config /\ scanner'.scan_id = None
  <2> DEFINE s == [scanner EXCEPT !.paused = TRUE, !.job_pauses = @ + 1,
                                  !.epoch = @ + 1, !.watching = FALSE]
  <2>1. /\ s.job_pauses = scanner.job_pauses + 1 /\ s.config = scanner.config
        /\ DOMAIN s = {"config", "roots", "scan_id", "epoch", "paused", "job_pauses", "watching", "stopping"}
    BY <1>2 DEF Scanner
  <2> HIDE DEF s
  <2>2. scanner' = [s EXCEPT !.scan_id = None]
    BY <1>6 DEF s, Closed
  <2> QED
    BY <2>1, <2>2
<1>10. scanner' # None
  <2>1. scanner' \in Scanner
    BY PauseMoves
  <2> QED
    BY <2>1, ScannerAssumption
<1>11. Asks' = Asks /\ Holding' = Holding
  BY <1>1 DEF Asks, Holding
<1>12. AskedOnce'
  BY <1>1, <1>4, <1>5, <1>11 DEF PauseInv, AskedOnce, Flag
<1>13. StaysUp' /\ OneOpenRow'
  BY <1>1, <1>2, <1>5, <1>8, <1>9, <1>10 DEF PauseInv, StaysUp, OneOpenRow
<1>14. Cardinality(Holding) \in Nat
  BY FS_CardinalityType DEF PauseInv, PausesAreCounted
<1>15. Flag(doing.type = "paused") = 0 /\ Flag(doing'.type = "paused") = 1
  BY <1>4, <1>5 DEF Flag
<1>16. Outstanding' = Outstanding + 1
  BY <1>1, <1>3, <1>11, <1>14, <1>15, CountsAreNumbers DEF Outstanding
<1> QED
  BY <1>2, <1>9, <1>10, <1>11, <1>12, <1>13, <1>16 DEF PauseInv, PausesAreCounted

ScannerFields ==
    {"config", "roots", "scan_id", "epoch", "paused", "job_pauses", "watching", "stopping"}

LEMMA FieldsAre == \A s \in Scanner : DOMAIN s = ScannerFields
BY DEF Scanner, ScannerFields

(* Neither configuration nor mounts nor records change the count.          *)
LEMMA CountSurvives ==
  ASSUME NEW s, DOMAIN s = ScannerFields
  PROVE  /\ \A config : LET t == Refreshed(s, config)
                        IN  /\ DOMAIN t = ScannerFields /\ t.job_pauses = s.job_pauses
                            /\ t.config = config /\ t.scan_id = s.scan_id
         /\ \A ok : LET t == Started(s, ok)
                    IN  t.job_pauses = s.job_pauses /\ t.config = s.config
         /\ Closed(s).job_pauses = s.job_pauses /\ Closed(s).config = s.config /\ Closed(s).scan_id = None
<1>1. \A config : LET t == Refreshed(s, config)
                  IN  /\ DOMAIN t = ScannerFields /\ t.job_pauses = s.job_pauses
                      /\ t.config = config /\ t.scan_id = s.scan_id
  BY DEF Refreshed, ScannerFields
<1>2. \A ok : LET t == Started(s, ok)
              IN  t.job_pauses = s.job_pauses /\ t.config = s.config
  BY DEF Started, ScannerFields
<1>3. Closed(s).job_pauses = s.job_pauses /\ Closed(s).config = s.config /\ Closed(s).scan_id = None
  BY DEF Closed, ScannerFields
<1> QED
  BY <1>1, <1>2, <1>3

LEMMA ResumeCounts ==
  ASSUME ScanInv, PauseInv, Steady, Steady', HandleResume PROVE PauseInv'
<1>1. Handles("Resume") /\ UNCHANGED <<doing, mailbox, registered, job_state>>
  BY DEF HandleResume
<1>2. /\ scanner \in Scanner /\ scanner # None /\ Still(scanner)
      /\ scanner.config \in Roots /\ open = {scanner.scan_id} \ {None}
      /\ scanner.job_pauses \in Nat /\ scanner.job_pauses = Outstanding
  BY <1>1, HandlerFacts
<1>3. scanner.job_pauses > 0
  <2>1. HowMany(inbox, "Resume") = HowMany(Tail(inbox), "Resume") + 1
        /\ HowMany(Tail(inbox), "Resume") \in Nat
    BY <1>1, Delivered DEF Handles, Flag
  <2>2. Cardinality(Holding) \in Nat /\ Flag(doing.type = "paused") \in Nat
    BY FS_CardinalityType DEF PauseInv, PausesAreCounted, Flag
  <2> HIDE DEF Flag
  <2> QED
    BY <1>2, <2>1, <2>2, CountsAreNumbers DEF Outstanding
<1>4. scanner.scan_id = None /\ open = {}
  BY <1>2, <1>3 DEF Still
<1> DEFINE s == [scanner EXCEPT !.job_pauses = IF @ = 0 THEN 0 ELSE @ - 1]
           loaded == Refreshed(s, config_file)
<1>5. /\ DOMAIN s = ScannerFields /\ scanner.job_pauses = s.job_pauses + 1
      /\ s.config = scanner.config /\ s.scan_id = None
  <2>1. DOMAIN scanner = ScannerFields
    BY <1>2, FieldsAre
  <2>2. s = [scanner EXCEPT !.job_pauses = scanner.job_pauses - 1]
    BY <1>2, <1>3
  <2>3. s.job_pauses = scanner.job_pauses - 1 /\ DOMAIN s = ScannerFields
        /\ s.config = scanner.config /\ s.scan_id = None
    BY <1>4, <2>1, <2>2 DEF ScannerFields
  <2> QED
    BY <1>2, <2>3
<1>6. config_file \in Roots /\ config_file # Off /\ config_file # Unreadable
  BY ConfigsAssumption DEF Steady
<1>7. \/ scanner' = s /\ open' = open
      \/ \E writes \in Outcomes :
            /\ scanner' = Closed([loaded EXCEPT !.paused = TRUE, !.watching = FALSE, !.epoch = @ + 1])
            /\ open' = RowsAfterClose(s, writes)
      \/ \E writes, watches \in Outcomes :
            /\ scanner' = Started([loaded EXCEPT !.paused = FALSE, !.epoch = @ + 1,
                                                 !.watching = watches], writes)
            /\ open' = open \cup ({scanner'.scan_id} \ {None})
  BY <1>6 DEF HandleResume
<1> HIDE DEF s
<1>8. /\ DOMAIN loaded = ScannerFields /\ loaded.job_pauses = s.job_pauses
      /\ loaded.config = config_file /\ loaded.scan_id = None
  BY <1>5, CountSurvives
<1> HIDE DEF loaded
<1>9. /\ scanner'.job_pauses = s.job_pauses /\ scanner'.config \in Roots
      /\ open' = {scanner'.scan_id} \ {None}
  <2>1. CASE scanner' = s /\ open' = open
    BY <1>2, <1>4, <1>5, <2>1
  <2>2. ASSUME NEW writes \in Outcomes,
               scanner' = Closed([loaded EXCEPT !.paused = TRUE, !.watching = FALSE, !.epoch = @ + 1]),
               open' = RowsAfterClose(s, writes)
        PROVE  /\ scanner'.job_pauses = s.job_pauses /\ scanner'.config \in Roots
               /\ open' = {scanner'.scan_id} \ {None}
    <3> DEFINE t == [loaded EXCEPT !.paused = TRUE, !.watching = FALSE, !.epoch = @ + 1]
    <3>1. DOMAIN t = ScannerFields /\ t.job_pauses = s.job_pauses /\ t.config = config_file
      BY <1>8 DEF ScannerFields
    <3> HIDE DEF t
    <3>2. scanner' = Closed(t) /\ open' = {}
      BY <1>4, <2>2 DEF t, RowsAfterClose
    <3> QED
      BY <1>6, <3>1, <3>2, CountSurvives
  <2>3. ASSUME NEW writes \in Outcomes, NEW watches \in Outcomes,
               scanner' = Started([loaded EXCEPT !.paused = FALSE, !.epoch = @ + 1,
                                                 !.watching = watches], writes),
               open' = open \cup ({scanner'.scan_id} \ {None})
        PROVE  /\ scanner'.job_pauses = s.job_pauses /\ scanner'.config \in Roots
               /\ open' = {scanner'.scan_id} \ {None}
    <3> DEFINE t == [loaded EXCEPT !.paused = FALSE, !.epoch = @ + 1, !.watching = watches]
    <3>1. DOMAIN t = ScannerFields /\ t.job_pauses = s.job_pauses /\ t.config = config_file
      BY <1>8 DEF ScannerFields
    <3> HIDE DEF t
    <3>2. scanner' = Started(t, writes) /\ open' = {scanner'.scan_id} \ {None}
      BY <1>4, <2>3 DEF t
    <3> QED
      BY <1>6, <3>1, <3>2, CountSurvives
  <2> QED
    BY <1>7, <2>1, <2>2, <2>3
<1>10. scanner' \in Scanner
  BY ResumeMoves
<1>11. scanner.job_pauses = scanner'.job_pauses + Flag("Resume" = "Resume")
  BY <1>5, <1>9 DEF Flag
<1> QED
  BY <1>1, <1>9, <1>10, <1>11, HandlerCounts

LEMMA UpdateConfigCounts ==
  ASSUME ScanInv, PauseInv, Steady, Steady', HandleUpdateConfig PROVE PauseInv'
<1> DEFINE config == Head(inbox).config
           s == Refreshed(scanner, config)
<1>1. Handles("UpdateConfig") /\ UNCHANGED <<doing, mailbox, registered, job_state>>
  BY DEF HandleUpdateConfig
<1>2. /\ scanner \in Scanner /\ scanner # None
      /\ scanner.config \in Roots /\ open = {scanner.scan_id} \ {None}
      /\ scanner.job_pauses \in Nat
  BY <1>1, HandlerFacts
<1>3. config \in Roots
  BY <1>1, HeadIs DEF Handles, Letters
<1>4. scanner.config # Off
  BY <1>2, ConfigsAssumption
<1>5. \/ \E writes \in Outcomes :
            /\ scanner' = Closed([s EXCEPT !.paused = TRUE, !.epoch = @ + 1, !.watching = FALSE])
            /\ open' = RowsAfterClose(scanner, writes)
            /\ CountFaults({writes})
      \/ scanner' = [s EXCEPT !.paused = TRUE] /\ open' = open
      \/ \E writes, watches \in Outcomes :
            /\ scanner' = [Restarted(s) EXCEPT !.watching = watches]
            /\ open' = open \cup ({scanner'.scan_id} \ {None})
      \/ scanner' = s /\ open' = open
  BY <1>4 DEF HandleUpdateConfig
<1>6. /\ DOMAIN s = ScannerFields /\ s.job_pauses = scanner.job_pauses
      /\ s.config = config /\ s.scan_id = scanner.scan_id
  BY <1>2, FieldsAre, CountSurvives
<1> HIDE DEF s, config
<1>7. /\ scanner'.job_pauses = scanner.job_pauses /\ scanner'.config \in Roots
      /\ open' = {scanner'.scan_id} \ {None}
  <2>1. ASSUME NEW writes \in Outcomes,
               scanner' = Closed([s EXCEPT !.paused = TRUE, !.epoch = @ + 1, !.watching = FALSE]),
               open' = RowsAfterClose(scanner, writes), CountFaults({writes})
        PROVE  /\ scanner'.job_pauses = scanner.job_pauses /\ scanner'.config \in Roots
               /\ open' = {scanner'.scan_id} \ {None}
    <3> DEFINE t == [s EXCEPT !.paused = TRUE, !.epoch = @ + 1, !.watching = FALSE]
    <3>1. DOMAIN t = ScannerFields /\ t.job_pauses = s.job_pauses /\ t.config = config
      BY <1>6 DEF ScannerFields
    <3> HIDE DEF t
    <3>2. writes = TRUE
      BY <2>1, NoFault, OutcomesAreBooleans DEF Steady
    <3>3. scanner' = Closed(t) /\ open' = {}
      BY <1>2, <2>1, <3>2 DEF t, RowsAfterClose
    <3> QED
      BY <1>3, <1>6, <3>1, <3>3, CountSurvives
  <2>2. CASE scanner' = [s EXCEPT !.paused = TRUE] /\ open' = open
    BY <1>2, <1>3, <1>6, <2>2 DEF ScannerFields
  <2>3. ASSUME NEW watches \in Outcomes,
               scanner' = [Restarted(s) EXCEPT !.watching = watches],
               open' = open \cup ({scanner'.scan_id} \ {None})
        PROVE  /\ scanner'.job_pauses = scanner.job_pauses /\ scanner'.config \in Roots
               /\ open' = {scanner'.scan_id} \ {None}
    <3>1. scanner'.job_pauses = s.job_pauses /\ scanner'.config = config /\ scanner'.scan_id = s.scan_id
      BY <1>6, <2>3 DEF ScannerFields, Restarted
    <3> QED
      BY <1>2, <1>3, <1>6, <2>3, <3>1
  <2>4. CASE scanner' = s /\ open' = open
    BY <1>2, <1>3, <1>6, <2>4
  <2> QED
    BY <1>5, <2>1, <2>2, <2>3, <2>4
<1>8. scanner' \in Scanner
  BY UpdateConfigMoves
<1>9. scanner.job_pauses = scanner'.job_pauses + Flag("UpdateConfig" = "Resume")
  BY <1>2, <1>7 DEF Flag
<1> QED
  BY <1>1, <1>7, <1>8, <1>9, HandlerCounts

LEMMA PauseInit == Init /\ Steady => PauseInv
<1> SUFFICES ASSUME Init, Steady PROVE PauseInv
  OBVIOUS
<1>1. /\ mailbox = <<>> /\ inbox = <<>> /\ registered = FALSE /\ scanner = None
      /\ doing = [type |-> "resync", config |-> config_file]
      /\ job_state = [j \in Jobs |-> "queued"] /\ config_file \in Roots
      /\ open \in {{}, {CHOOSE row \in Rows : TRUE}}
  BY DEF Init, Steady
<1>2. doing.type = "resync" /\ doing.config \in Roots
  BY <1>1
<1>3. \A type : HowMany(mailbox, type) = 0 /\ HowMany(inbox, type) = 0
  BY <1>1, CountOfNone
<1>4. Holding = {} /\ Asks = {}
  BY <1>1 DEF Holding, Asks, Sent
<1>5. IsFiniteSet(Holding) /\ Cardinality(Holding) = 0
  BY <1>4, FS_EmptySet
<1>6. OneOpenRow
  <2>1. PICK row \in Rows : open \subseteq {row}
    BY <1>1, RowsAssumption
  <2> QED
    BY <1>1, <2>1 DEF OneOpenRow
<1>7. AskedOnce /\ StaysUp
  BY <1>1, <1>2, <1>3, <1>4 DEF AskedOnce, StaysUp, Flag
<1>8. PausesAreCounted
  BY <1>1, <1>2, <1>3, <1>5 DEF PausesAreCounted, Outstanding, Flag
<1> QED
  BY <1>6, <1>7, <1>8 DEF PauseInv

LEMMA PauseNext ==
  ASSUME ~CancelAsking, ScanInv, PauseInv, Steady, Steady', [Next]_vars PROVE PauseInv'
<1>1. CASE \E config \in Configs, api \in BOOLEAN : Edit(config, api)
  <2>1. [type |-> "config"] \in Mail
    BY DEF Mail
  <2> QED
    BY <1>1, <2>1, BystanderKeeps DEF Edit, actor
<1>2. CASE Remount \/ WatcherEvent \/ Dispatch \/ (\E w \in work : HandleResult(w)) \/ UNCHANGED vars
  BY <1>2, BystanderKeeps DEF Remount, WatcherEvent, Dispatch, HandleResult, supervisor, actor, vars
<1>3. CASE DebounceEnds \/ ResyncInterval
  <2>1. [type |-> "resync"] \in Mail
    BY DEF Mail
  <2>2. mailbox' = Append(mailbox, [type |-> "resync"])
    BY <1>3 DEF DebounceEnds, ResyncInterval
  <2> QED
    BY <1>3, <2>1, <2>2, BystanderKeeps DEF DebounceEnds, ResyncInterval, actor
<1>4. CASE Supervise
  BY <1>4, ReadsCount, SyncCounts, PauseForJobCounts, PauseReplyCounts, ResumeAfterJobCounts DEF Supervise
<1>5. CASE Scan
  <2>1. ~PostStop
    BY DEF PostStop, PauseInv, StaysUp, ScanInv, Types
  <2> QED
    BY <1>5, <2>1, PauseCounts, ResumeCounts, UpdateConfigCounts DEF Scan
<1>6. CASE \E j \in Jobs : StartJob(j) \/ SendResume(j) \/ CancelJob(j)
  BY <1>6, StartJobCounts, SendResumeCounts, CancelJobCounts
<1> QED
  BY <1>1, <1>2, <1>3, <1>4, <1>5, <1>6 DEF Next

LEMMA AccountSettles ==
  ASSUME ScanInv, PauseInv
  PROVE  JobRunsPaused /\ PausesAreResumed /\ OpenRowIsTheScanners
<1>1. /\ Cardinality(Holding) \in Nat /\ IsFiniteSet(Holding)
      /\ Flag(doing.type = "paused") \in Nat
      /\ HowMany(mailbox, "ResumeAfterJob") \in Nat /\ HowMany(inbox, "Resume") \in Nat
  BY FS_CardinalityType, CountsAreNumbers DEF PauseInv, PausesAreCounted, Flag
<1>2. JobRunsPaused
  <2> SUFFICES ASSUME NEW j \in Jobs, job_state[j] = "running", scanner # None PROVE scanner.paused
    BY DEF JobRunsPaused
  <2>1. Cardinality(Holding) # 0
    BY <1>1, FS_EmptySet DEF Holding
  <2>2. scanner.job_pauses > 0
    <3> HIDE DEF Flag
    <3>1. scanner.job_pauses = Outstanding
      BY DEF PauseInv, PausesAreCounted
    <3> QED
      BY <1>1, <2>1, <3>1 DEF Outstanding
  <2> QED
    BY <2>2, StillHolds DEF Still
<1>3. PausesAreResumed
  <2> SUFFICES ASSUME \A j \in Jobs : job_state[j] = "ended", mailbox = <<>>, doing = Idle,
                      inbox = <<>>, scanner # None
               PROVE  scanner.job_pauses = 0
    BY DEF PausesAreResumed
  <2>1. Holding = {} /\ doing.type = "idle"
    BY DoingIs DEF Holding
  <2>2. Outstanding = 0
    BY <2>1, CountOfNone, FS_EmptySet DEF Outstanding, Flag
  <2> QED
    BY <2>2 DEF PauseInv, PausesAreCounted
<1>4. OpenRowIsTheScanners
  BY DEF PauseInv, OneOpenRow, OpenRowIsTheScanners
<1> QED
  BY <1>2, <1>3, <1>4

(* As long as the configuration stays enabled and no write fails: whatever *)
(* mounts, edits of the roots, resyncs and cancelled jobs there are, a     *)
(* scan is paused while a job runs, no pause is left when all have ended, and   *)
(* the open record is the scanner's (pause_for_job_guarded, the guard's    *)
(* Drop, job_pauses).  A job that is cancelled before its pause is         *)
(* acknowledged has no guard yet, and nothing takes its pause back: hence  *)
(* the hypothesis.                                                         *)
THEOREM JobsAlwaysPauseTheScan ==
  ASSUME ~CancelAsking
  PROVE  Spec => JobsPauseTheScan
<1>1. Init /\ Steady => PauseInv
  BY PauseInit
<1>2. ScanInv /\ PauseInv /\ Steady /\ Steady' /\ [Next]_vars => PauseInv'
  BY PauseNext
<1>3. ScanInv /\ PauseInv => JobRunsPaused /\ PausesAreResumed /\ OpenRowIsTheScanners
  BY AccountSettles
<1>4. Steady <=> config_file \in Roots /\ faults = 0
  BY DEF Steady
<1> QED
  BY <1>1, <1>2, <1>3, <1>4, InitInv, NextInv, PTL DEF Spec, JobsPauseTheScan
-----------------------------------------------------------------------------
(* The file scan: sequences of owed writes                                 *)

IsSeq(s) == \E S : s \in Seq(S)

(* The write of a file's row is among those that are owed.                 *)
WritesFile(s, p) == \E i \in DOMAIN s : s[i].op = "file" /\ s[i].p = p

LEMMA FewIsSeq ==
    /\ IsSeq(<<>>)
    /\ \A a : IsSeq(<<a>>)
    /\ \A a, b : IsSeq(<<a, b>>)
    /\ \A a, b, c : IsSeq(<<a, b, c>>)
<1>1. <<>> \in Seq({})
  OBVIOUS
<1>2. \A a : <<a>> \in Seq({a})
  OBVIOUS
<1>3. \A a, b : <<a, b>> \in Seq({a, b})
  OBVIOUS
<1>4. \A a, b, c : <<a, b, c>> \in Seq({a, b, c})
  OBVIOUS
<1> QED
  BY <1>1, <1>2, <1>3, <1>4 DEF IsSeq

LEMMA FirstIsSeq ==
    ASSUME NEW s, IsSeq(s), NEW x
    PROVE  IsSeq(<<x>> \o s) /\ \A p : WritesFile(s, p) => WritesFile(<<x>> \o s, p)
<1>1. PICK S : s \in Seq(S)
  BY DEF IsSeq
<1> DEFINE T == S \cup {x}
           t == <<x>> \o s
<1>2. s \in Seq(T) /\ <<x>> \in Seq(T)
  BY <1>1
<1>3. /\ t \in Seq(T) /\ Len(t) = Len(s) + 1
      /\ \A i \in 1 .. Len(s) : t[i + 1] = s[i]
  BY <1>2
<1>4. ASSUME NEW p, NEW i \in DOMAIN s, s[i].op = "file", s[i].p = p
      PROVE  i + 1 \in DOMAIN t /\ t[i + 1].op = "file" /\ t[i + 1].p = p
  BY <1>1, <1>3, <1>4
<1> QED
  BY <1>3, <1>4 DEF IsSeq, WritesFile

LEMMA LastIsSeq ==
    ASSUME NEW s, IsSeq(s), NEW x
    PROVE  IsSeq(s \o <<x>>) /\ \A p : WritesFile(s, p) => WritesFile(s \o <<x>>, p)
<1>1. PICK S : s \in Seq(S)
  BY DEF IsSeq
<1> DEFINE T == S \cup {x}
           t == s \o <<x>>
<1>2. s \in Seq(T) /\ <<x>> \in Seq(T)
  BY <1>1
<1>3. /\ t \in Seq(T) /\ Len(t) = Len(s) + 1
      /\ \A i \in 1 .. Len(s) : t[i] = s[i]
  BY <1>2
<1>4. ASSUME NEW p, NEW i \in DOMAIN s, s[i].op = "file", s[i].p = p
      PROVE  i \in DOMAIN t /\ t[i].op = "file" /\ t[i].p = p
  BY <1>1, <1>3, <1>4
<1> QED
  BY <1>3, <1>4 DEF IsSeq, WritesFile

LEMMA TailIsSeq ==
    ASSUME NEW s, IsSeq(s), s # <<>>
    PROVE  /\ IsSeq(Tail(s))
           /\ \A p : WritesFile(s, p) => \/ Head(s).op = "file" /\ Head(s).p = p
                                         \/ WritesFile(Tail(s), p)
<1>1. PICK S : s \in Seq(S)
  BY DEF IsSeq
<1>2. /\ Tail(s) \in Seq(S) /\ Len(Tail(s)) = Len(s) - 1 /\ Head(s) = s[1]
      /\ \A i \in 1 .. Len(s) - 1 : Tail(s)[i] = s[i + 1]
  BY <1>1
<1>3. ASSUME NEW p, NEW i \in DOMAIN s, s[i].op = "file", s[i].p = p, i # 1
      PROVE  i - 1 \in DOMAIN Tail(s) /\ Tail(s)[i - 1].op = "file" /\ Tail(s)[i - 1].p = p
  BY <1>1, <1>2, <1>3
<1> QED
  BY <1>2, <1>3 DEF IsSeq, WritesFile

LEMMA KnownWritesFile ==
    ASSUME NEW p, NEW m, NEW c, NEW fresh
    PROVE  IsSeq(Known(p, m, c, fresh)) /\ WritesFile(Known(p, m, c, fresh), p)
<1> DEFINE s == Known(p, m, c, fresh)
<1>1. s = <<FileOp(p, m, c, fresh), ClearOp(p), BackfillOp(p, c)>>
  BY DEF Known
<1>2. 1 \in DOMAIN s /\ s[1] = FileOp(p, m, c, fresh)
  BY <1>1
<1>3. s[1].op = "file" /\ s[1].p = p
  BY <1>2 DEF FileOp
<1>4. IsSeq(s)
  BY <1>1, FewIsSeq
<1> QED
  BY <1>2, <1>3, <1>4 DEF WritesFile

LEMMA NewItemWritesFile ==
    ASSUME NEW t, NEW made
    PROVE  IsSeq(NewItem(t, made)) /\ WritesFile(NewItem(t, made), t.p)
<1> DEFINE file == <<FileOp(t.p, t.m, t.c, TRUE), ClearOp(t.p)>>
<1>1. 1 \in DOMAIN file /\ file[1].op = "file" /\ file[1].p = t.p
  BY DEF FileOp
<1>2. IsSeq(file) /\ WritesFile(file, t.p)
  BY <1>1, FewIsSeq DEF WritesFile
<1> HIDE DEF file
<1>3. \A x : IsSeq(<<x>> \o file) /\ WritesFile(<<x>> \o file, t.p)
  BY <1>2, FirstIsSeq
<1>4. \A x, y : IsSeq((<<x>> \o file) \o <<y>>) /\ WritesFile((<<x>> \o file) \o <<y>>, t.p)
  BY <1>3, LastIsSeq
<1>5. NewItem(t, made) \in {(<<MarkOp(t.c, Ambiguous)>> \o file) \o <<AuditOp(t.p, t.m, Ambiguous)>>,
                            <<StoreOp(t.c, made)>> \o file, file}
  BY DEF NewItem, file
<1> QED
  BY <1>2, <1>3, <1>4, <1>5
-----------------------------------------------------------------------------
(* What a job owes to the files that have been there all the time          *)

(* The row of the file names this scan, or it is going to, or the path is  *)
(* kept out of the marking.                                                *)
Queued(p) ==
    \/ files[p].scan = job.id
    \/ \E t \in job.tasks : t.op # "backfill" /\ t.p = p
    \/ WritesFile(job.agenda, p)

(* Files of the root that the job is at, which it must not mark.           *)
Due(p) == p \in seen.open /\ RootOf[p] = job.root /\ DirOf[p] \notin job.exc /\ files[p].avail

Formed ==
    /\ DOMAIN job = DOMAIN NoJob /\ {"open", "checked"} \subseteq DOMAIN seen
    /\ DOMAIN disk = Paths /\ DOMAIN files = Paths
    /\ IsSeq(job.agenda)
    /\ \A t \in job.tasks : {"op", "p"} \subseteq DOMAIN t

OpenIsThere ==
    \A p \in seen.open :
        /\ p \in Paths /\ disk[p] # NoFile /\ DirOf[p] \notin locked
        /\ RootOf[p] \notin unmounted \cap seen.checked

Visits == {"Walk", "Sweep", "Mark"}

RootsAreChecked ==
    /\ job.todo \subseteq seen.checked
    /\ job.phase \in Visits => job.root \in seen.checked

Collected ==
    job.phase \in Visits => \A p \in Paths : Due(p) => p \in job.ahead \cup job.errs \/ Queued(p)

WalkIsOver == job.phase \in {"Sweep", "Mark"} => job.ahead = {} /\ job.tasks = {} /\ job.agenda = <<>>

FilesInv == Formed /\ OpenIsThere /\ RootsAreChecked /\ Collected /\ WalkIsOver

LEMMA JobFields ==
    DOMAIN NoJob = {"kind", "phase", "update", "exc", "added", "todo", "root", "id", "token", "known",
                    "reached", "pinned", "errs", "torn", "ahead", "tasks", "agenda"}
BY DEF NoJob

LEMMA FilesInit == ScanInit => FilesInv
<1> SUFFICES ASSUME ScanInit PROVE FilesInv
  OBVIOUS
<1>1. job = NoJob /\ seen.open = {} /\ seen.checked = {} /\ {"open", "checked"} \subseteq DOMAIN seen
  BY DEF ScanInit
<1>2. job.agenda = <<>> /\ job.tasks = {} /\ job.todo = {} /\ job.phase = "Idle"
  BY <1>1 DEF NoJob
<1> QED
  BY <1>1, <1>2, FewIsSeq DEF FilesInv, Formed, OpenIsThere, RootsAreChecked, Collected, WalkIsOver,
     Visits, ScanInit

(* The world moves: what is left of seen.open has stayed.                  *)
LEMMA WorldKeeps ==
    ASSUME FilesInv, Moved, DOMAIN disk' = Paths, UNCHANGED <<db, job>>
    PROVE  FilesInv'
<1>1. /\ seen'.open = {p \in seen.open : Stays(p, disk', unmounted') /\ DirOf[p] \notin locked'}
      /\ seen'.checked = seen.checked /\ DOMAIN seen' = DOMAIN seen
  BY DEF FilesInv, Formed, Moved
<1>2. Formed'
  BY <1>1 DEF FilesInv, Formed, db
<1>3. OpenIsThere'
  BY <1>1 DEF FilesInv, OpenIsThere, Stays
<1>4. \A p : Due(p)' => Due(p)
  BY <1>1 DEF Due, db
<1>5. \A p : Queued(p) => Queued(p)'
  BY DEF Queued, db
<1> QED
  BY <1>1, <1>2, <1>3, <1>4, <1>5 DEF FilesInv, RootsAreChecked, Collected, WalkIsOver

LEMMA WorldInv == ASSUME FilesInv, World PROVE FilesInv'
<1>1. Moved /\ UNCHANGED <<db, job>>
  BY DEF World, DeleteFile, WriteFile, MoveFile, Unmount, Lock, InstallRenderer, EditConfig
<1>2. DOMAIN disk' = Paths
  BY DEF World, DeleteFile, WriteFile, MoveFile, Unmount, Lock, InstallRenderer, EditConfig,
     FilesInv, Formed
<1> QED
  BY <1>1, <1>2, WorldKeeps

(* A step of the walker or of a handler that has written all it owed: what *)
(* leaves the list of files ahead, or the workers, is found again.         *)
LEMMA WalkKeeps ==
    ASSUME FilesInv, job.phase = "Walk", job.agenda = <<>>, UNCHANGED <<env, files>>,
           DOMAIN job' = DOMAIN job, job'.phase = "Walk", job'.root = job.root, job'.id = job.id,
           job'.exc = job.exc, job'.todo = job.todo,
           DOMAIN seen' = DOMAIN seen, seen'.open = seen.open, seen'.checked = seen.checked,
           IsSeq(job'.agenda), job.errs \subseteq job'.errs,
           \A t \in job'.tasks : t \in job.tasks \/ {"op", "p"} \subseteq DOMAIN t,
           \A p \in job.ahead : Due(p) => p \in job'.ahead \cup job'.errs \/ Queued(p)',
           \A t \in job.tasks : t.op # "backfill" => \/ t \in job'.tasks
                                                     \/ t.p \in job'.errs
                                                     \/ Queued(t.p)'
    PROVE  FilesInv'
<1>1. Formed'
  BY DEF FilesInv, Formed, env
<1>2. OpenIsThere'
  BY DEF FilesInv, OpenIsThere, env
<1>3. RootsAreChecked'
  BY DEF FilesInv, RootsAreChecked, Visits
<1>4. ASSUME NEW p \in Paths, Due(p)'
      PROVE  p \in (job.ahead \cup job.errs)' \/ Queued(p)'
  <2>1. Due(p)
    BY <1>4 DEF Due
  <2>2. p \in job.ahead \cup job.errs \/ Queued(p)
    BY <2>1 DEF FilesInv, Collected, Visits
  <2>3. ~WritesFile(job.agenda, p)
    BY DEF WritesFile
  <2>4. CASE files[p].scan = job.id
    BY <2>4 DEF Queued
  <2>5. CASE \E t \in job.tasks : t.op # "backfill" /\ t.p = p
    BY <2>5 DEF Queued
  <2> QED
    BY <2>1, <2>2, <2>3, <2>4, <2>5 DEF Queued
<1> QED
  BY <1>1, <1>2, <1>3, <1>4 DEF FilesInv, Collected, WalkIsOver

(* A write of a handler: the others are still owed.                        *)
LEMMA WriteKeeps ==
    ASSUME FilesInv, job.phase = "Walk", job.agenda # <<>>, UNCHANGED <<env, files>>,
           DOMAIN job' = DOMAIN job, job'.phase = "Walk", job'.root = job.root, job'.id = job.id,
           job'.exc = job.exc, job'.todo = job.todo, job'.ahead = job.ahead, job'.errs = job.errs,
           DOMAIN seen' = DOMAIN seen, seen'.open = seen.open, seen'.checked = seen.checked,
           job'.agenda = Tail(job.agenda), Next1.op # "file",
           job.tasks \subseteq job'.tasks,
           \A t \in job'.tasks : t \in job.tasks \/ {"op", "p"} \subseteq DOMAIN t
    PROVE  FilesInv'
<1>0. IsSeq(job.agenda)
  BY DEF FilesInv, Formed
<1>1. IsSeq(Tail(job.agenda)) /\ \A p : WritesFile(job.agenda, p) => WritesFile(Tail(job.agenda), p)
  BY <1>0, TailIsSeq DEF Next1
<1>2. Formed'
  BY <1>1 DEF FilesInv, Formed, env
<1>3. OpenIsThere'
  BY DEF FilesInv, OpenIsThere, env
<1>4. RootsAreChecked'
  BY DEF FilesInv, RootsAreChecked, Visits
<1>5. \A p : (Queued(p) => Queued(p)') /\ (Due(p)' => Due(p))
  BY <1>1 DEF Queued, Due
<1> QED
  BY <1>2, <1>3, <1>4, <1>5 DEF FilesInv, Collected, WalkIsOver, Visits

(* A step outside of a visit.                                              *)
LEMMA OtherKeeps ==
    ASSUME FilesInv, UNCHANGED env, DOMAIN files' = Paths,
           DOMAIN job' = DOMAIN job, job'.phase \notin Visits, IsSeq(job'.agenda), job'.tasks \subseteq job.tasks,
           job'.todo \subseteq seen'.checked, {"open", "checked"} \subseteq DOMAIN seen', OpenIsThere'
    PROVE  FilesInv'
BY DEF FilesInv, Formed, RootsAreChecked, Collected, WalkIsOver, Visits, env

LEMMA HistoryKeeps ==
    ASSUME FilesInv, UNCHANGED env, seen'.open = seen.open, seen'.checked = seen.checked
    PROVE  OpenIsThere'
BY DEF FilesInv, OpenIsThere, env

LEMMA IdleKeeps ==
    ASSUME FilesInv, UNCHANGED env, DOMAIN files' = Paths, DOMAIN seen' = DOMAIN seen,
           seen'.open = seen.open, seen'.checked = seen.checked,
           DOMAIN job' = DOMAIN NoJob, job'.agenda = <<>>, job'.tasks = {}, job'.todo = {},
           job'.phase \notin Visits
    PROVE  FilesInv'
<1>1. OpenIsThere'
  BY HistoryKeeps
<1>2. DOMAIN job' = DOMAIN job /\ {"open", "checked"} \subseteq DOMAIN seen
  BY DEF FilesInv, Formed
<1> QED
  BY <1>1, <1>2, OtherKeeps, FewIsSeq

LEMMA StartInv == ASSUME FilesInv, NEW kind, Start(kind) PROVE FilesInv'
<1>1. /\ DOMAIN job' = DOMAIN NoJob /\ job'.agenda = <<>> /\ job'.tasks = {} /\ job'.todo = {}
      /\ job'.phase \notin Visits
  BY DEF Start, NoJob, Visits
<1>2. /\ DOMAIN seen' = DOMAIN seen
      /\ seen'.open = {p \in Paths : disk[p] # NoFile /\ DirOf[p] \notin locked}
      /\ seen'.checked = {}
  BY DEF Start, FilesInv, Formed
<1>3. OpenIsThere' /\ UNCHANGED env /\ DOMAIN files' = Paths
  BY <1>2 DEF Start, OpenIsThere, env, db, FilesInv, Formed
<1>4. DOMAIN job = DOMAIN NoJob /\ {"open", "checked"} \subseteq DOMAIN seen
  BY DEF FilesInv, Formed
<1> QED
  BY <1>1, <1>2, <1>3, <1>4, OtherKeeps, FewIsSeq

LEMMA ChosenInv ==
    ASSUME FilesInv, NEW roots, seen' = Checked(roots), UNCHANGED <<env, db>>,
           DOMAIN job' = DOMAIN job, job'.phase \notin Visits, IsSeq(job'.agenda),
           job'.tasks \subseteq job.tasks, job'.todo = roots
    PROVE  FilesInv'
<1>1. /\ DOMAIN seen' = DOMAIN seen /\ seen'.checked = roots
      /\ seen'.open = {p \in seen.open : RootOf[p] \notin unmounted \cap roots}
  BY DEF Checked, FilesInv, Formed
<1>2. OpenIsThere'
  BY <1>1 DEF FilesInv, OpenIsThere, env
<1> QED
  BY <1>1, <1>2, OtherKeeps DEF FilesInv, Formed, db

LEMMA FoldersInv ==
    ASSUME FilesInv,
           \/ UpdateFolders \/ Unexclude \/ Register \/ ChooseAdded \/ ChooseAll \/ CloseStale \/ Heal
    PROVE  FilesInv'
<1>0. /\ DOMAIN job = DOMAIN NoJob /\ {"open", "checked"} \subseteq DOMAIN seen /\ DOMAIN files = Paths
      /\ IsSeq(job.agenda) /\ job.todo \subseteq seen.checked
  BY DEF FilesInv, Formed, RootsAreChecked
<1>1. CASE UpdateFolders \/ Unexclude
  <2>1. /\ DOMAIN job' = DOMAIN job /\ job'.phase \in {"Unexclude", "Register"}
        /\ job'.agenda = job.agenda /\ job'.tasks = job.tasks /\ job'.todo = job.todo
    BY <1>0, <1>1, JobFields DEF UpdateFolders, Unexclude
  <2>2. /\ DOMAIN seen' = DOMAIN seen /\ seen'.open = seen.open /\ seen'.checked = seen.checked
        /\ UNCHANGED <<env, files>>
    BY <1>0, <1>1 DEF UpdateFolders, Unexclude
  <2> QED
    BY <1>0, <2>1, <2>2, HistoryKeeps, OtherKeeps DEF Visits
<1>2. CASE Register
  <2>1. /\ DOMAIN job' = DOMAIN job /\ job'.phase = "Register" /\ job'.agenda = job.agenda
        /\ job'.tasks = job.tasks /\ job'.todo = job.todo
    BY <1>0, <1>2, JobFields DEF Register
  <2>2. UNCHANGED <<env, files, seen>>
    BY <1>2 DEF Register
  <2> QED
    BY <1>0, <2>1, <2>2, HistoryKeeps, OtherKeeps DEF Visits
<1>3. CASE ChooseAdded
  <2> DEFINE valid == {r \in job.added \cup NotCovered : Valid(r)}
  <2>1. /\ DOMAIN job' = DOMAIN job /\ job'.phase = "CloseStale" /\ job'.agenda = job.agenda
        /\ job'.tasks = job.tasks /\ job'.todo = valid
    BY <1>0, <1>3, JobFields DEF ChooseAdded, Choose
  <2>2. seen' = Checked(valid) /\ UNCHANGED <<env, db>>
    BY <1>3 DEF ChooseAdded, Choose
  <2> HIDE DEF valid
  <2> QED
    BY <1>0, <2>1, <2>2, ChosenInv DEF Visits
<1>4. CASE ChooseAll
  <2> DEFINE valid == {r \in folders.inc : Valid(r)}
  <2>1. /\ DOMAIN job' = DOMAIN NoJob /\ job'.phase = "CloseStale" /\ job'.agenda = <<>>
        /\ job'.tasks = {} /\ job'.todo = valid
    BY <1>4 DEF ChooseAll, NoJob
  <2>2. seen' = Checked(valid) /\ UNCHANGED <<env, db>>
    BY <1>4 DEF ChooseAll
  <2> HIDE DEF valid
  <2> QED
    BY <1>0, <2>1, <2>2, ChosenInv, FewIsSeq DEF Visits
<1>5. CASE CloseStale \/ Heal
  <2>1. /\ DOMAIN job' = DOMAIN job /\ job'.phase \notin Visits /\ job'.agenda = job.agenda
        /\ job'.tasks = job.tasks /\ job'.todo = job.todo
    BY <1>0, <1>5, JobFields DEF CloseStale, Heal, Visits
  <2>2. UNCHANGED <<env, files, seen>>
    BY <1>5 DEF CloseStale, Heal
  <2> QED
    BY <1>0, <2>1, <2>2, HistoryKeeps, OtherKeeps
<1> QED
  BY <1>1, <1>2, <1>3, <1>4, <1>5

LEMMA OpenRootInv == ASSUME FilesInv, NEW r, OpenRoot(r) PROVE FilesInv'
<1>0. /\ DOMAIN job = DOMAIN NoJob /\ IsSeq(job.agenda) /\ job.todo \subseteq seen.checked
      /\ \A t \in job.tasks : {"op", "p"} \subseteq DOMAIN t
  BY DEF FilesInv, Formed, RootsAreChecked
<1>1. /\ DOMAIN job' = DOMAIN job /\ job'.phase = "Walk" /\ job'.agenda = job.agenda
      /\ job'.tasks = job.tasks /\ job'.todo = job.todo \ {r} /\ job'.root = r /\ job'.exc = job.exc
      /\ job'.ahead = {p \in {p \in Paths : RootOf[p] = r} : DirOf[p] \notin job.exc}
  BY <1>0, JobFields DEF OpenRoot
<1>2. r \in job.todo /\ UNCHANGED <<env, files, seen>>
  BY DEF OpenRoot, IsNext
<1>3. OpenIsThere' /\ Formed'
  BY <1>1, <1>2, HistoryKeeps DEF FilesInv, Formed, env
<1>4. \A p \in Paths : Due(p)' => p \in job'.ahead
  BY <1>1, <1>2 DEF Due
<1> QED
  BY <1>0, <1>1, <1>2, <1>3, <1>4 DEF FilesInv, RootsAreChecked, Collected, WalkIsOver
-----------------------------------------------------------------------------
(* The walk                                                                *)

LEMMA WalkFacts ==
    ASSUME FilesInv, Free
    PROVE  /\ job.phase = "Walk" /\ job.agenda = <<>> /\ IsSeq(<<>>)
           /\ DOMAIN job = DOMAIN NoJob /\ {"open", "checked"} \subseteq DOMAIN seen
           /\ \A t \in job.tasks : {"op", "p"} \subseteq DOMAIN t
           /\ \A p \in seen.open : /\ DirOf[p] \notin locked
                                   /\ RootOf[p] = job.root => There(p)
BY FewIsSeq DEF FilesInv, Formed, Free, OpenIsThere, RootsAreChecked, Visits, There

(* The entries of the job that the walk must not change.                   *)
Onward ==
    /\ DOMAIN job' = DOMAIN job /\ job'.phase = "Walk" /\ job'.root = job.root /\ job'.id = job.id
    /\ job'.exc = job.exc /\ job'.todo = job.todo

LEMMA ReachedIs ==
    ASSUME DOMAIN job = DOMAIN NoJob, NEW p, NEW m
    PROVE  LET j == Reached(p, m)
           IN  /\ DOMAIN j = DOMAIN job /\ j.phase = job.phase /\ j.root = job.root /\ j.id = job.id
               /\ j.exc = job.exc /\ j.todo = job.todo /\ j.ahead = job.ahead \ {p}
               /\ j.errs = job.errs /\ j.tasks = job.tasks /\ j.agenda = job.agenda
BY JobFields DEF Reached

LEMMA RejectedIs ==
    ASSUME NEW j, DOMAIN j = DOMAIN NoJob, NEW p, NEW agenda
    PROVE  LET k == [Rejected(j, p) EXCEPT !.agenda = agenda]
           IN  /\ DOMAIN k = DOMAIN NoJob /\ k.phase = j.phase /\ k.root = j.root /\ k.id = j.id
               /\ k.exc = j.exc /\ k.todo = j.todo /\ k.ahead = j.ahead
               /\ k.errs = j.errs \cup {p} /\ k.tasks = j.tasks /\ k.agenda = agenda
BY JobFields DEF Rejected

LEMMA ScanPathInv == ASSUME FilesInv, NEW p, ScanPath(p) PROVE FilesInv'
<1> DEFINE m == disk[p].m
           j == Reached(p, m)
           hash == [op |-> "hash", p |-> p, m |-> m, c |-> files[p].c]
           fail == <<FailOp(p, m, "metadata", TRUE, Confirmed)>>
           known == Known(p, files[p].m, files[p].c, FALSE)
<1>0. Free /\ p \in job.ahead /\ UNCHANGED <<env, db, seen>>
  BY DEF ScanPath
<1>1. /\ DOMAIN j = DOMAIN NoJob /\ j.phase = job.phase /\ j.root = job.root /\ j.id = job.id
      /\ j.exc = job.exc /\ j.todo = job.todo /\ j.ahead = job.ahead \ {p}
      /\ j.errs = job.errs /\ j.tasks = job.tasks /\ j.agenda = job.agenda
  BY <1>0, WalkFacts, ReachedIs
<1>2. \/ job' = Suppressed(j, p)
      \/ job' = [Rejected(j, p) EXCEPT !.agenda = fail]
      \/ job' = [j EXCEPT !.agenda = known]
      \/ job' = [j EXCEPT !.tasks = @ \cup {hash}]
  BY DEF ScanPath
<1>3. IsSeq(fail) /\ IsSeq(known) /\ WritesFile(known, p)
  BY FewIsSeq, KnownWritesFile
<1>4. hash.op = "hash" /\ hash.p = p /\ DOMAIN hash = {"op", "p", "m", "c"}
  OBVIOUS
<1> HIDE DEF j, hash, fail, known
<1>5. /\ Onward /\ IsSeq(job'.agenda) /\ job'.ahead = job.ahead \ {p}
      /\ job'.errs \in {job.errs, job.errs \cup {p}} /\ job'.tasks \in {job.tasks, job.tasks \cup {hash}}
      /\ p \in job'.errs \/ job'.agenda = known \/ hash \in job'.tasks
  <2>1. CASE job' = Suppressed(j, p)
    BY <1>0, <1>1, <2>1, WalkFacts, JobFields DEF Onward, Suppressed
  <2>2. CASE job' = [Rejected(j, p) EXCEPT !.agenda = fail]
    BY <1>0, <1>1, <1>3, <2>2, WalkFacts, RejectedIs DEF Onward
  <2>3. CASE job' = [j EXCEPT !.agenda = known]
    BY <1>0, <1>1, <1>3, <2>3, WalkFacts, JobFields DEF Onward
  <2>4. CASE job' = [j EXCEPT !.tasks = @ \cup {hash}]
    BY <1>0, <1>1, <2>4, WalkFacts, JobFields DEF Onward
  <2> QED
    BY <1>2, <2>1, <2>2, <2>3, <2>4
<1>6. p \in job'.errs \/ Queued(p)'
  BY <1>3, <1>4, <1>5 DEF Queued
<1> QED
  BY <1>0, <1>4, <1>5, <1>6, WalkFacts, WalkKeeps DEF Onward, db

LEMMA NotThereInv == ASSUME FilesInv, NEW p, NotThere(p) PROVE FilesInv'
<1>0. Free /\ p \in job.ahead /\ ~There(p) /\ UNCHANGED <<env, db, seen>>
  BY DEF NotThere
<1>1. /\ Onward /\ job'.agenda = job.agenda /\ job'.ahead = job.ahead \ {p}
      /\ job'.errs = job.errs /\ job'.tasks = job.tasks
  BY <1>0, WalkFacts, JobFields DEF Onward, NotThere
<1>2. ~Due(p)
  BY <1>0, WalkFacts DEF Due
<1> QED
  BY <1>0, <1>1, <1>2, WalkFacts, WalkKeeps DEF Onward, db

LEMMA StatFailsInv == ASSUME FilesInv, NEW p, StatFails(p) PROVE FilesInv'
<1>0. /\ Free /\ p \in job.ahead /\ UNCHANGED <<env, db>>
      /\ DOMAIN seen' = DOMAIN seen /\ seen'.open = seen.open /\ seen'.checked = seen.checked
  BY WalkFacts DEF StatFails
<1>1. /\ Onward /\ job'.agenda = job.agenda /\ job'.ahead = job.ahead \ {p}
      /\ job'.errs = job.errs \cup {p} /\ job'.tasks = job.tasks
  BY <1>0, WalkFacts, JobFields DEF Onward, StatFails, Rejected
<1> QED
  BY <1>0, <1>1, WalkFacts, WalkKeeps DEF Onward, db

LEMMA WalkErrorInv == ASSUME FilesInv, NEW d, WalkError(d) PROVE FilesInv'
<1>0. Free /\ d \in locked /\ UNCHANGED <<env, db, seen>>
  BY DEF WalkError
<1>1. /\ Onward /\ job'.agenda = job.agenda /\ job'.ahead = {p \in job.ahead : DirOf[p] # d}
      /\ job'.errs = job.errs /\ job'.tasks = job.tasks
  BY <1>0, WalkFacts, JobFields DEF Onward, WalkError
<1>2. \A p \in job.ahead : Due(p) => p \in job'.ahead
  BY <1>0, <1>1, WalkFacts DEF Due
<1> QED
  BY <1>0, <1>1, <1>2, WalkFacts, WalkKeeps DEF Onward, db

Alike(j, k) ==
    /\ DOMAIN k = DOMAIN NoJob /\ k.phase = j.phase /\ k.root = j.root /\ k.id = j.id
    /\ k.exc = j.exc /\ k.todo = j.todo /\ k.ahead = j.ahead /\ k.errs = j.errs /\ k.tasks = j.tasks

LEMMA RekeyedIs ==
    ASSUME NEW j, DOMAIN j = DOMAIN NoJob, IsSeq(j.agenda), NEW p, NEW m
    PROVE  /\ Alike(j, Rekeyed(j, p, m))
           /\ IsSeq(Rekeyed(j, p, m).agenda)
           /\ WritesFile(j.agenda, p) => WritesFile(Rekeyed(j, p, m).agenda, p)
<1> DEFINE k == Rekeyed(j, p, m)
<1>1. CASE j.known[p] = NoError \/ Blocks(j.known[p])
  BY <1>1 DEF Rekeyed, Alike
<1>2. CASE ~(j.known[p] = NoError \/ Blocks(j.known[p]))
  <2>1. Alike(j, k) /\ k.agenda = <<RekeyOp(p, m)>> \o j.agenda
    BY <1>2, JobFields DEF Rekeyed, Alike
  <2>2. /\ IsSeq(<<RekeyOp(p, m)>> \o j.agenda)
        /\ WritesFile(j.agenda, p) => WritesFile(<<RekeyOp(p, m)>> \o j.agenda, p)
    BY FirstIsSeq
  <2> QED
    BY <2>1, <2>2
<1> QED
  BY <1>1, <1>2

LEMMA HashDoneInv == ASSUME FilesInv, NEW t \in job.tasks, HashDone(t) PROVE FilesInv'
<1> DEFINE c == disk[t.p].c
           j == [job EXCEPT !.tasks = @ \ {t}]
           same == [j EXCEPT !.agenda = Known(t.p, t.m, c, FALSE)]
           other == [j EXCEPT !.agenda = Known(t.p, t.m, c, TRUE)]
           prepare == [t EXCEPT !.op = "prepare", !.c = c]
<1>0. Free /\ t.op = "hash" /\ UNCHANGED <<env, db, seen>>
  BY DEF HashDone
<1>1. \/ job' = Rekeyed(same, t.p, t.m)
      \/ job' = other
      \/ job' = [j EXCEPT !.tasks = @ \cup {prepare}]
  BY DEF HashDone
<1>2. {"op", "p"} \subseteq DOMAIN t
  BY <1>0, WalkFacts
<1>3. prepare.op = "prepare" /\ prepare.p = t.p /\ DOMAIN prepare = DOMAIN t
  BY <1>2
<1> HIDE DEF prepare
<1>4. \A fresh : IsSeq(Known(t.p, t.m, c, fresh)) /\ WritesFile(Known(t.p, t.m, c, fresh), t.p)
  BY KnownWritesFile
<1>5. /\ Onward /\ IsSeq(job'.agenda) /\ job'.ahead = job.ahead /\ job'.errs = job.errs
      /\ job.tasks \ {t} \subseteq job'.tasks /\ job'.tasks \subseteq job.tasks \cup {prepare}
      /\ WritesFile(job'.agenda, t.p) \/ prepare \in job'.tasks
  <2>1. CASE job' = Rekeyed(same, t.p, t.m)
    <3>1. /\ DOMAIN same = DOMAIN NoJob /\ same.phase = "Walk" /\ same.root = job.root /\ same.id = job.id
          /\ same.exc = job.exc /\ same.todo = job.todo /\ same.ahead = job.ahead
          /\ same.errs = job.errs /\ same.tasks = job.tasks \ {t}
          /\ same.agenda = Known(t.p, t.m, c, FALSE)
      BY <1>0, WalkFacts, JobFields
    <3> HIDE DEF same
    <3>2. IsSeq(same.agenda) /\ WritesFile(same.agenda, t.p)
      BY <1>4, <3>1
    <3>3. Alike(same, job') /\ IsSeq(job'.agenda) /\ WritesFile(job'.agenda, t.p)
      <4>1. DOMAIN same = DOMAIN NoJob /\ IsSeq(same.agenda)
        BY <3>1, <3>2
      <4>2. job' = Rekeyed(same, t.p, t.m)
        BY <2>1
      <4> HIDE DEF j
      <4>3. /\ Alike(same, Rekeyed(same, t.p, t.m)) /\ IsSeq(Rekeyed(same, t.p, t.m).agenda)
            /\ WritesFile(Rekeyed(same, t.p, t.m).agenda, t.p)
        BY <3>2, <4>1, RekeyedIs
      <4> QED
        BY <4>2, <4>3
    <3>4. DOMAIN job = DOMAIN NoJob
      BY <1>0, WalkFacts
    <3> QED
      BY <3>1, <3>3, <3>4 DEF Onward, Alike
  <2>2. CASE job' = other
    <3>1. /\ DOMAIN other = DOMAIN NoJob /\ other.phase = "Walk" /\ other.root = job.root
          /\ other.id = job.id /\ other.exc = job.exc /\ other.todo = job.todo
          /\ other.ahead = job.ahead /\ other.errs = job.errs /\ other.tasks = job.tasks \ {t}
          /\ other.agenda = Known(t.p, t.m, c, TRUE)
      BY <1>0, WalkFacts, JobFields
    <3> HIDE DEF other
    <3> QED
      BY <1>0, <1>4, <2>2, <3>1, WalkFacts DEF Onward
  <2>3. CASE job' = [j EXCEPT !.tasks = @ \cup {prepare}]
    BY <1>0, <2>3, WalkFacts, JobFields DEF Onward
  <2> QED
    BY <1>1, <2>1, <2>2, <2>3
<1>6. Queued(t.p)'
  BY <1>3, <1>5 DEF Queued
<1> QED
  BY <1>0, <1>2, <1>3, <1>5, <1>6, WalkFacts, WalkKeeps DEF Onward, db

LEMMA PrepareDoneInv == ASSUME FilesInv, NEW t \in job.tasks, PrepareDone(t) PROVE FilesInv'
<1> DEFINE c == disk[t.p].c
           j == [job EXCEPT !.tasks = @ \ {t}]
           fail == <<UnfitOp(t.p, t.m)>>
<1>0. /\ Free /\ UNCHANGED <<env, db>>
      /\ DOMAIN seen' = DOMAIN seen /\ seen'.open = seen.open /\ seen'.checked = seen.checked
  BY WalkFacts DEF PrepareDone, Failed, Undecoded
<1>1. \/ job' = [Rejected(j, t.p) EXCEPT !.agenda = fail]
      \/ job' = [j EXCEPT !.agenda = NewItem(t, c)]
  BY DEF PrepareDone
<1>2. IsSeq(fail) /\ IsSeq(NewItem(t, c)) /\ WritesFile(NewItem(t, c), t.p)
  BY FewIsSeq, NewItemWritesFile
<1> HIDE DEF fail
<1>3. /\ Onward /\ IsSeq(job'.agenda) /\ job'.ahead = job.ahead
      /\ job'.errs \in {job.errs, job.errs \cup {t.p}} /\ job'.tasks = job.tasks \ {t}
      /\ t.p \in job'.errs \/ job'.agenda = NewItem(t, c)
  <2>0. /\ DOMAIN j = DOMAIN NoJob /\ j.phase = "Walk" /\ j.root = job.root /\ j.id = job.id
        /\ j.exc = job.exc /\ j.todo = job.todo /\ j.ahead = job.ahead
        /\ j.errs = job.errs /\ j.tasks = job.tasks \ {t}
    BY <1>0, WalkFacts, JobFields
  <2> HIDE DEF j
  <2>1. CASE job' = [Rejected(j, t.p) EXCEPT !.agenda = fail]
    BY <1>0, <1>2, <2>0, <2>1, WalkFacts, RejectedIs DEF Onward
  <2>2. CASE job' = [j EXCEPT !.agenda = NewItem(t, c)]
    BY <1>0, <1>2, <2>0, <2>2, WalkFacts, JobFields DEF Onward
  <2> QED
    BY <1>1, <2>1, <2>2
<1>4. t.p \in job'.errs \/ Queued(t.p)'
  BY <1>2, <1>3 DEF Queued
<1> QED
  BY <1>0, <1>3, <1>4, WalkFacts, WalkKeeps DEF Onward, db

LEMMA BackfillDoneInv == ASSUME FilesInv, NEW t \in job.tasks, BackfillDone(t) PROVE FilesInv'
<1>0. /\ Free /\ t.op = "backfill" /\ UNCHANGED <<env, db>>
      /\ DOMAIN seen' = DOMAIN seen /\ seen'.open = seen.open /\ seen'.checked = seen.checked
  BY WalkFacts DEF BackfillDone, Failed, Undecoded
<1>1. \A x : IsSeq(<<x>>) /\ IsSeq(<<x>> \o <<>>) /\ \A y : IsSeq(<<x>> \o <<y>>)
  BY FewIsSeq, FirstIsSeq
<1>2. /\ Onward /\ IsSeq(job'.agenda) /\ job'.ahead = job.ahead
      /\ job'.errs = job.errs /\ job'.tasks = job.tasks \ {t}
  BY <1>0, <1>1, WalkFacts, JobFields, FewIsSeq DEF Onward, BackfillDone, Audit
<1> QED
  BY <1>0, <1>2, WalkFacts, WalkKeeps DEF Onward, db

LEMMA TaskFailsInv == ASSUME FilesInv, NEW t \in job.tasks, TaskFails(t) PROVE FilesInv'
<1>0. /\ Free /\ UNCHANGED <<env, db>>
      /\ DOMAIN seen' = DOMAIN seen /\ seen'.open = seen.open /\ seen'.checked = seen.checked
  BY WalkFacts DEF TaskFails
<1>1. /\ Onward /\ job'.agenda = job.agenda /\ job'.ahead = job.ahead
      /\ job'.errs \in {job.errs, job.errs \cup {t.p}} /\ job'.tasks = job.tasks \ {t}
      /\ t.op # "backfill" => t.p \in job'.errs
  BY <1>0, WalkFacts, JobFields DEF Onward, TaskFails, Rejected
<1> QED
  BY <1>0, <1>1, WalkFacts, WalkKeeps DEF Onward, db

LEMMA EndWalkInv == ASSUME FilesInv, EndWalk PROVE FilesInv'
<1>0. Free /\ job.ahead = {} /\ job.tasks = {} /\ UNCHANGED <<env, db, seen>>
  BY DEF EndWalk, Walked
<1>1. /\ DOMAIN job' = DOMAIN job /\ job'.phase = "Sweep" /\ job'.root = job.root /\ job'.id = job.id
      /\ job'.exc = job.exc /\ job'.todo = job.todo /\ job'.ahead = job.ahead /\ job'.errs = job.errs
      /\ job'.tasks = job.tasks /\ job'.agenda = job.agenda
  BY <1>0, WalkFacts, JobFields DEF EndWalk
<1>2. Formed' /\ OpenIsThere'
  BY <1>0, <1>1, HistoryKeeps DEF FilesInv, Formed, env, db
<1>3. \A p : (Queued(p) => Queued(p)') /\ (Due(p)' => Due(p))
  BY <1>0, <1>1 DEF Queued, Due, db
<1> QED
  BY <1>0, <1>1, <1>2, <1>3, WalkFacts DEF FilesInv, RootsAreChecked, Collected, WalkIsOver, Visits
-----------------------------------------------------------------------------
(* The writes, the cleanup and the failures                                *)

LEMMA RestIs ==
    ASSUME FilesInv, NEW j, DOMAIN j = DOMAIN job, job.agenda # <<>>
    PROVE  /\ DOMAIN Rest = DOMAIN job /\ Rest.phase = job.phase /\ Rest.root = job.root
           /\ Rest.id = job.id /\ Rest.exc = job.exc /\ Rest.todo = job.todo /\ Rest.ahead = job.ahead
           /\ Rest.errs = job.errs /\ Rest.tasks = job.tasks /\ Rest.agenda = Tail(job.agenda)
BY JobFields DEF Rest, FilesInv, Formed

LEMMA WritesInv ==
    ASSUME FilesInv,
           \/ UpsertScanError \/ UpsertVisualAttempt \/ StoreThumbnails
           \/ Clear \/ Rekey \/ MaybeBackfill
    PROVE  FilesInv'
<1> DEFINE backfill == [op |-> "backfill", p |-> Next1.p, m |-> 0, c |-> Next1.c]
<1>1. /\ job.phase = "Walk" /\ job.agenda # <<>> /\ Next1.op # "file"
      /\ UNCHANGED <<env, files, seen>>
  BY DEF UpsertScanError, UpsertVisualAttempt, StoreThumbnails, Clear, Rekey, MaybeBackfill, Owes, db
<1>2. \/ job' = Rest
      \/ \E known : job' = [Rest EXCEPT !.known = known]
      \/ job' = [Rest EXCEPT !.tasks = @ \cup {backfill}]
  BY DEF UpsertScanError, UpsertVisualAttempt, StoreThumbnails, Clear, Rekey, MaybeBackfill
<1>3. {"op", "p"} \subseteq DOMAIN backfill /\ DOMAIN job = DOMAIN NoJob
  BY DEF FilesInv, Formed
<1> HIDE DEF backfill
<1>4. /\ DOMAIN job' = DOMAIN job /\ job'.phase = job.phase /\ job'.root = job.root
      /\ job'.id = job.id /\ job'.exc = job.exc /\ job'.todo = job.todo /\ job'.ahead = job.ahead
      /\ job'.errs = job.errs /\ job'.tasks \in {job.tasks, job.tasks \cup {backfill}}
      /\ job'.agenda = Tail(job.agenda)
  BY <1>1, <1>2, <1>3, RestIs, JobFields
<1> QED
  BY <1>1, <1>3, <1>4, WriteKeeps

LEMMA UpdateFileDataInv == ASSUME FilesInv, UpdateFileData PROVE FilesInv'
<1> DEFINE o == Next1
           row == IF o.fresh \/ files[o.p] # NoRow
                  THEN [c |-> IF o.fresh THEN o.c ELSE files[o.p].c, m |-> o.m, scan |-> job.id,
                        avail |-> TRUE]
                  ELSE NoRow
<1>1. /\ job.phase = "Walk" /\ job.agenda # <<>> /\ UNCHANGED <<env, seen>>
      /\ files' = [files EXCEPT ![o.p] = row] /\ job' = Rest
  BY DEF UpdateFileData, Owes
<1>2. row.scan = job.id \/ ~row.avail
  BY DEF NoRow
<1>3. /\ DOMAIN job' = DOMAIN job /\ job'.phase = job.phase /\ job'.root = job.root
      /\ job'.id = job.id /\ job'.exc = job.exc /\ job'.todo = job.todo /\ job'.ahead = job.ahead
      /\ job'.errs = job.errs /\ job'.tasks = job.tasks /\ job'.agenda = Tail(job.agenda)
  BY <1>1, RestIs
<1> HIDE DEF row
<1>4. IsSeq(job.agenda) /\ DOMAIN files = Paths
  BY DEF FilesInv, Formed
<1>5. /\ IsSeq(job'.agenda)
      /\ \A p : WritesFile(job.agenda, p) => o.p = p \/ WritesFile(job'.agenda, p)
  BY <1>1, <1>3, <1>4, TailIsSeq DEF Next1
<1>6. Formed' /\ OpenIsThere'
  BY <1>1, <1>3, <1>5, HistoryKeeps DEF FilesInv, Formed, env
<1>7. /\ DOMAIN files' = Paths /\ \A p \in Paths : p # o.p => files'[p] = files[p]
      /\ o.p \in Paths => files'[o.p] = row
  BY <1>1, <1>4
<1>8. ASSUME NEW p \in Paths, Due(p)'
      PROVE  p \in (job.ahead \cup job.errs)' \/ Queued(p)'
  <2>1. CASE p = o.p
    <3>1. files'[p] = row /\ files'[p].avail
      BY <1>7, <1>8, <2>1 DEF Due
    <3>2. files'[p].scan = job'.id
      BY <1>2, <1>3, <3>1
    <3> QED
      BY <3>2 DEF Queued
  <2>2. CASE p # o.p
    <3>1. files'[p] = files[p]
      BY <1>7, <2>2
    <3>2. Due(p)
      BY <1>1, <1>3, <1>8, <3>1 DEF Due
    <3>3. p \in job.ahead \cup job.errs \/ Queued(p)
      BY <1>1, <3>2 DEF FilesInv, Collected, Visits
    <3> QED
      BY <1>3, <1>5, <2>2, <3>1, <3>3 DEF Queued
  <2> QED
    BY <2>1, <2>2
<1> QED
  BY <1>1, <1>3, <1>6, <1>8 DEF FilesInv, RootsAreChecked, Collected, WalkIsOver, Visits

LEMMA AdvanceIs ==
    ASSUME FilesInv
    PROVE  /\ DOMAIN Advance = DOMAIN job /\ Advance.phase = After(job.phase)
           /\ Advance.root = job.root /\ Advance.id = job.id /\ Advance.exc = job.exc
           /\ Advance.todo = job.todo /\ Advance.ahead = job.ahead /\ Advance.errs = job.errs
           /\ Advance.tasks = job.tasks /\ Advance.agenda = job.agenda
BY JobFields DEF Advance, FilesInv, Formed

(* From the sweep to the marking.                                          *)
LEMMA SweptKeeps ==
    ASSUME FilesInv, job.phase = "Sweep", job' = Advance, UNCHANGED <<env, files>>,
           DOMAIN seen' = DOMAIN seen, seen'.open = seen.open, seen'.checked = seen.checked
    PROVE  FilesInv'
<1>1. After("Sweep") = "Mark"
  BY DEF After
<1>2. job'.phase = "Mark"
  BY <1>1, AdvanceIs
<1>3. Formed' /\ OpenIsThere'
  BY AdvanceIs, HistoryKeeps DEF FilesInv, Formed, env
<1>4. \A p : (Queued(p) => Queued(p)') /\ (Due(p)' => Due(p))
  BY AdvanceIs DEF Queued, Due
<1> QED
  BY <1>2, <1>3, <1>4, AdvanceIs DEF FilesInv, RootsAreChecked, Collected, WalkIsOver, Visits

(* A step of the cleanup.                                                  *)
LEMMA AdvanceKeeps ==
    ASSUME FilesInv, job.phase \in {"Heal", "Mark", "Close", "DelUnavailable", "DelExcluded", "DelStray",
                                    "DelItems", "DelThumbs"},
           job' = Advance, UNCHANGED env, DOMAIN files' = Paths,
           DOMAIN seen' = DOMAIN seen, seen'.open = seen.open, seen'.checked = seen.checked
    PROVE  FilesInv'
<1>1. After(job.phase) \notin Visits
  BY DEF After, Visits
<1>2. /\ IsSeq(job.agenda) /\ job.todo \subseteq seen.checked /\ {"open", "checked"} \subseteq DOMAIN seen
  BY DEF FilesInv, Formed, RootsAreChecked
<1>3. /\ DOMAIN job' = DOMAIN job /\ job'.phase \notin Visits /\ job'.agenda = job.agenda
      /\ job'.tasks = job.tasks /\ job'.todo = job.todo
  BY <1>1, AdvanceIs
<1> QED
  BY <1>2, <1>3, HistoryKeeps, OtherKeeps

LEMMA EndsKeep ==
    ASSUME FilesInv, job' \in {Ended, NoJob}, UNCHANGED <<env, files>>,
           DOMAIN seen' = DOMAIN seen, seen'.open = seen.open, seen'.checked = seen.checked
    PROVE  FilesInv'
<1>1. /\ DOMAIN job' = DOMAIN NoJob /\ job'.agenda = <<>> /\ job'.tasks = {} /\ job'.todo = {}
      /\ job'.phase \notin Visits
  <2>1. CASE job' = NoJob
    BY <2>1 DEF NoJob, Visits
  <2>2. CASE job' = [NoJob EXCEPT !.kind = "rescan", !.phase = "Rescan"]
    BY <2>2 DEF NoJob, Visits
  <2> QED
    BY <2>1, <2>2 DEF Ended
<1>2. DOMAIN files' = Paths
  BY DEF FilesInv, Formed
<1> QED
  BY <1>1, <1>2, IdleKeeps

LEMMA CleanupInv == ASSUME FilesInv, Cleanup PROVE FilesInv'
<1>0. DOMAIN files = Paths /\ {"open", "checked"} \subseteq DOMAIN seen
  BY DEF FilesInv, Formed
<1>1. CASE Sweep
  BY <1>1, SweptKeeps DEF Sweep
<1>2. CASE MarkUnavailableFiles
  <2>1. job.phase = "Mark" /\ job' = Advance /\ DOMAIN files' = Paths /\ UNCHANGED <<env, seen>>
    BY <1>2 DEF MarkUnavailableFiles
  <2> QED
    BY <2>1, AdvanceKeeps
<1>3. CASE CloseScan
  <2>1. /\ job.phase = "Close" /\ job' = Advance /\ UNCHANGED <<env, files>>
        /\ DOMAIN seen' = DOMAIN seen /\ seen'.open = seen.open /\ seen'.checked = seen.checked
    BY <1>0, <1>3 DEF CloseScan
  <2> QED
    BY <1>0, <2>1, AdvanceKeeps
<1>4. CASE DeleteSomeFiles
  <2>1. /\ job.phase \in {"DelUnavailable", "DelExcluded", "DelStray"} /\ job' = Advance
        /\ DOMAIN files' = Paths /\ UNCHANGED <<env, seen>>
    BY <1>4 DEF DeleteSomeFiles, DeleteFiles
  <2> QED
    BY <2>1, AdvanceKeeps
<1>5. CASE DeleteItemsWithoutFiles \/ DeleteOrphanedThumbnails
  <2>1. /\ job.phase \in {"DelItems", "DelThumbs"} /\ job' = Advance /\ UNCHANGED <<env, files, seen>>
    BY <1>5 DEF DeleteItemsWithoutFiles, DeleteOrphanedThumbnails
  <2> QED
    BY <1>0, <2>1, AdvanceKeeps
<1>6. CASE SweepOrphanedVisualAttempts
  BY <1>6, EndsKeep DEF SweepOrphanedVisualAttempts
<1> QED
  BY <1>1, <1>2, <1>3, <1>4, <1>5, <1>6 DEF Cleanup

LEMMA FailuresInv == ASSUME FilesInv, LoseWrite \/ Abort PROVE FilesInv'
<1>0. /\ UNCHANGED <<env, files>> /\ DOMAIN files = Paths /\ DOMAIN job = DOMAIN NoJob
      /\ DOMAIN seen' = DOMAIN seen /\ seen'.open = seen.open /\ seen'.checked = seen.checked
  BY DEF LoseWrite, Abort, FilesInv, Formed, db
<1>1. CASE job.phase = "Walk" /\ job.agenda # <<>> /\ Next1.op # "file" /\ job' = Rest
  <2>1. \A t \in job.tasks : {"op", "p"} \subseteq DOMAIN t
    BY DEF FilesInv, Formed
  <2> QED
    BY <1>0, <1>1, <2>1, RestIs, WriteKeeps
<1>2. CASE job.phase = "Sweep" /\ job' = Advance
  BY <1>0, <1>2, SweptKeeps
<1>3. CASE job.phase = "Heal" /\ job' = Advance
  BY <1>0, <1>3, AdvanceKeeps
<1>4. CASE job' \in {Ended, NoJob}
  BY <1>0, <1>4, EndsKeep
<1> QED
  BY <1>1, <1>2, <1>3, <1>4 DEF LoseWrite, Abort

LEMMA FilesNext == FilesInv /\ [ScanNext]_scanVars => FilesInv'
<1> SUFFICES ASSUME FilesInv, [ScanNext]_scanVars PROVE FilesInv'
  OBVIOUS
<1>1. CASE World
  BY <1>1, WorldInv
<1>2. CASE \E kind \in {"rescan", "update"} : Start(kind)
  BY <1>2, StartInv
<1>3. CASE Folders
  BY <1>3, FoldersInv, OpenRootInv DEF Folders
<1>4. CASE Walk
  BY <1>4, ScanPathInv, NotThereInv, StatFailsInv, WalkErrorInv, HashDoneInv, PrepareDoneInv,
     BackfillDoneInv, TaskFailsInv, EndWalkInv DEF Walk
<1>5. CASE Writes
  BY <1>5, WritesInv, UpdateFileDataInv DEF Writes
<1>6. CASE Cleanup
  BY <1>6, CleanupInv
<1>7. CASE LoseWrite \/ Abort
  BY <1>7, FailuresInv
<1>8. CASE UNCHANGED scanVars
  <2>1. UNCHANGED <<env, files, job, seen>>
    BY <1>8 DEF scanVars, db
  <2>2. /\ UNCHANGED <<Formed, OpenIsThere, RootsAreChecked, WalkIsOver>>
        /\ UNCHANGED Collected
    BY <2>1 DEF Formed, OpenIsThere, RootsAreChecked, WalkIsOver, Collected, Due, Queued, env
  <2> QED
    BY <2>2 DEF FilesInv
<1> QED
  BY <1>1, <1>2, <1>3, <1>4, <1>5, <1>6, <1>7, <1>8 DEF ScanNext, Work

ListsAreKnown ==
    /\ want \in Wishes
    /\ DOMAIN folders = {"inc", "exc"} /\ folders.exc \subseteq Dirs
    /\ job.exc \subseteq Dirs

LEMMA ListsStayKnown ==
    /\ ScanInit => ListsAreKnown
    /\ FilesInv /\ ListsAreKnown /\ [ScanNext]_scanVars => ListsAreKnown'
<1>1. ASSUME ScanInit PROVE ListsAreKnown
  <2>1. job.exc = {} /\ folders = [inc |-> {}, exc |-> {}] /\ want \in Wishes
    BY <1>1 DEF ScanInit, NoJob
  <2> QED
    BY <2>1 DEF ListsAreKnown
<1> SUFFICES ASSUME FilesInv, ListsAreKnown, [ScanNext]_scanVars PROVE ListsAreKnown'
  BY <1>1
<1>3. DOMAIN job = DOMAIN NoJob /\ want.exc \subseteq Dirs
  <2>1. want \in [inc : SUBSET RootFolders, exc : SUBSET Dirs]
    BY ContentsAssumption DEF ListsAreKnown
  <2>2. want.exc \in SUBSET Dirs
    BY <2>1
  <2> QED
    BY <2>2 DEF FilesInv, Formed
<1>4. want' \in Wishes
  BY DEF ListsAreKnown, ScanNext, World, DeleteFile, WriteFile, MoveFile, Unmount, Lock,
     InstallRenderer, EditConfig, Start, Work, Folders, UpdateFolders, Unexclude, Register, ChooseAdded, ChooseAll,
     CloseStale, Heal, OpenRoot, Walk, ScanPath, NotThere, StatFails, WalkError, HashDone, PrepareDone,
     BackfillDone, TaskFails, EndWalk, Writes, UpsertScanError, UpsertVisualAttempt, StoreThumbnails,
     UpdateFileData, Clear, Rekey, MaybeBackfill, Cleanup, Sweep, MarkUnavailableFiles, CloseScan,
     DeleteSomeFiles, DeleteFiles, DeleteItemsWithoutFiles, DeleteOrphanedThumbnails,
     SweepOrphanedVisualAttempts, LoseWrite, Abort, scanVars, env
<1>5. DOMAIN folders' = {"inc", "exc"} /\ folders'.exc \subseteq Dirs
  <2>1. CASE UpdateFolders \/ Unexclude
    BY <1>3, <2>1 DEF ListsAreKnown, UpdateFolders, Unexclude
  <2>2. CASE Register
    <3>1. \/ \E r : folders' = [folders EXCEPT !.inc = @ \cup {r}]
          \/ \E d \in job.exc : folders' = [folders EXCEPT !.exc = @ \cup {d}]
      BY <2>2 DEF Register
    <3> QED
      BY <3>1 DEF ListsAreKnown
  <2>3. CASE UNCHANGED folders
    BY <2>3 DEF ListsAreKnown
  <2> QED
    BY <2>1, <2>2, <2>3 DEF ScanNext, World, DeleteFile, WriteFile, MoveFile, Unmount, Lock,
     InstallRenderer, EditConfig, Start, Work, Folders, ChooseAdded, ChooseAll,
     CloseStale, Heal, OpenRoot, Walk, ScanPath, NotThere, StatFails, WalkError, HashDone, PrepareDone,
     BackfillDone, TaskFails, EndWalk, Writes, UpsertScanError, UpsertVisualAttempt, StoreThumbnails,
     UpdateFileData, Clear, Rekey, MaybeBackfill, Cleanup, Sweep, MarkUnavailableFiles, CloseScan,
     DeleteSomeFiles, DeleteFiles, DeleteItemsWithoutFiles, DeleteOrphanedThumbnails,
     SweepOrphanedVisualAttempts, LoseWrite, Abort, scanVars, db
<1>6. job'.exc \in {job.exc, {}, want.exc, folders.exc}
  <2>1. CASE World \/ UNCHANGED scanVars
    BY <2>1 DEF World, DeleteFile, WriteFile, MoveFile, Unmount, Lock, InstallRenderer, EditConfig, scanVars
  <2>2. CASE \E kind \in {"rescan", "update"} : Start(kind)
    BY <2>2 DEF Start, NoJob
  <2>3. CASE Folders
    BY <1>3, <2>3, JobFields DEF Folders, UpdateFolders, Unexclude, Register, ChooseAdded, Choose, ChooseAll, NoJob,
       CloseStale, Heal, OpenRoot
  <2>4. CASE Walk
    <3>1. ASSUME NEW p \in Paths, ScanPath(p) PROVE job'.exc = job.exc
      BY <1>3, <3>1, JobFields DEF ScanPath, Reached, Suppressed, Rejected
    <3>2. ASSUME NEW p \in Paths, NotThere(p) \/ StatFails(p) PROVE job'.exc = job.exc
      BY <1>3, <3>2, JobFields DEF NotThere, StatFails, Rejected
    <3>3. ASSUME NEW t \in job.tasks, HashDone(t) PROVE job'.exc = job.exc
      BY <1>3, <3>3, JobFields DEF HashDone, Rekeyed
    <3>4. ASSUME NEW t \in job.tasks, PrepareDone(t) \/ BackfillDone(t) \/ TaskFails(t)
          PROVE  job'.exc = job.exc
      BY <1>3, <3>4, JobFields DEF PrepareDone, BackfillDone, TaskFails, Rejected
    <3>5. ASSUME EndWalk \/ \E d \in Dirs : WalkError(d) PROVE job'.exc = job.exc
      BY <1>3, <3>5, JobFields DEF EndWalk, WalkError
    <3> QED
      BY <2>4, <3>1, <3>2, <3>3, <3>4, <3>5 DEF Walk
  <2>5. CASE Writes
    BY <1>3, <2>5, JobFields DEF Writes, UpsertScanError, UpsertVisualAttempt, StoreThumbnails,
       UpdateFileData, Clear, Rekey, MaybeBackfill, Rest
  <2>6. CASE job' \in {Advance, Rest, Ended, NoJob}
    <3>1. Advance.exc = job.exc /\ Rest.exc = job.exc
      BY <1>3, JobFields DEF Advance, Rest
    <3>2. NoJob.exc = {} /\ [NoJob EXCEPT !.kind = "rescan", !.phase = "Rescan"].exc = {}
      BY DEF NoJob
    <3> QED
      BY <2>6, <3>1, <3>2 DEF Ended
  <2> QED
    BY <2>1, <2>2, <2>3, <2>4, <2>5, <2>6 DEF ScanNext, Work, Cleanup, Sweep, MarkUnavailableFiles,
     CloseScan, DeleteSomeFiles, DeleteFiles, DeleteItemsWithoutFiles, DeleteOrphanedThumbnails,
     SweepOrphanedVisualAttempts, LoseWrite, Abort
<1> QED
  BY <1>3, <1>4, <1>5, <1>6 DEF ListsAreKnown

(* The one step that writes off files, and those that delete them.         *)
LEMMA StepsKeepFiles ==
    ASSUME \A d \in Dirs : \A p \in LikeDir[d] : DirOf[p] = d,
           FilesInv, ListsAreKnown, [ScanNext]_scanVars, NEW p \in seen.open,
           RootOf[p] \in folders.inc, DirOf[p] \notin folders.exc \cup job.exc, files[p].avail
    PROVE  files'[p].avail
<1>0. p \in Paths /\ DOMAIN files = Paths
  BY DEF FilesInv, OpenIsThere, Formed
<1>1. CASE UNCHANGED files
  BY <1>1
<1>2. CASE UpdateFileData
  <2>1. files[p] # NoRow
    BY DEF NoRow
  <2> DEFINE o == Next1
             row == [c |-> IF o.fresh THEN o.c ELSE files[o.p].c, m |-> o.m, scan |-> job.id,
                     avail |-> TRUE]
  <2>2. row.avail
    OBVIOUS
  <2> HIDE DEF row
  <2>3. files' = [files EXCEPT ![o.p] = IF o.fresh \/ files[o.p] # NoRow THEN row ELSE NoRow]
    BY <1>2 DEF UpdateFileData, row
  <2>4. CASE p = o.p
    BY <1>0, <2>1, <2>2, <2>3, <2>4
  <2>5. CASE p # o.p
    BY <1>0, <2>3, <2>5
  <2> QED
    BY <2>4, <2>5
<1>3. CASE MarkUnavailableFiles
  <2>1. job.phase = "Mark"
    BY <1>3 DEF MarkUnavailableFiles
  <2>2. CASE RootOf[p] = job.root
    <3>1. Due(p)
      BY <2>2 DEF Due
    <3>2. /\ p \in job.ahead \cup job.errs \/ Queued(p)
          /\ job.ahead = {} /\ job.tasks = {} /\ job.agenda = <<>>
      BY <1>0, <2>1, <3>1 DEF FilesInv, Collected, WalkIsOver, Visits
    <3>3. p \in job.errs \/ files[p].scan = job.id
      BY <3>2 DEF Queued, WritesFile
    <3> QED
      BY <1>0, <1>3, <3>3 DEF MarkUnavailableFiles
  <2>3. CASE RootOf[p] # job.root
    BY <1>0, <1>3, <2>3 DEF MarkUnavailableFiles
  <2> QED
    BY <2>2, <2>3
<1>4. CASE DeleteSomeFiles
  <2>1. p \notin Unavailable /\ p \notin Stray
    BY DEF Unavailable, Stray
  <2>2. p \notin Excluded
    <3>1. ASSUME NEW d \in folders.exc, p \in LikeDir[d] PROVE FALSE
      BY <3>1 DEF ListsAreKnown
    <3> QED
      BY <3>1 DEF Excluded
  <2> QED
    BY <1>0, <1>4, <2>1, <2>2 DEF DeleteSomeFiles, DeleteFiles
<1> QED
  BY <1>1, <1>2, <1>3, <1>4 DEF ScanNext, World, DeleteFile, WriteFile, MoveFile, Unmount, Lock,
     InstallRenderer, EditConfig, Start, Work, Folders, UpdateFolders, Unexclude, Register, ChooseAdded, ChooseAll,
     CloseStale, Heal, OpenRoot, Walk, ScanPath, NotThere, StatFails, WalkError, HashDone, PrepareDone,
     BackfillDone, TaskFails, EndWalk, Writes, UpsertScanError, UpsertVisualAttempt, StoreThumbnails,
     Clear, Rekey, MaybeBackfill, Cleanup, Sweep, CloseScan, DeleteItemsWithoutFiles,
     DeleteOrphanedThumbnails, SweepOrphanedVisualAttempts, LoseWrite, Abort, scanVars, db

(* A file that could be read all the time since the job started, under a   *)
(* registered root and outside of the excluded folders, keeps its entry    *)
(* and stays available, whatever fails or moves around it                  *)
(* (mark_unavailable_files and the cleanup of mod.rs).  The hypothesis: an *)
(* excluded folder takes no path outside of it, as the LIKE of             *)
(* delete_files_under_excluded_folders does when its name holds a wildcard.*)
THEOREM ExistingFilesStay ==
    ASSUME \A d \in Dirs : \A p \in LikeDir[d] : DirOf[p] = d
    PROVE  FileScanSpec => ExistingFilesKept
<1>1. FilesInv /\ ListsAreKnown /\ [ScanNext]_scanVars =>
        [\A p \in seen.open :
            /\ RootOf[p] \in folders.inc /\ DirOf[p] \notin folders.exc \cup job.exc
            /\ files[p].avail
            => files'[p].avail]_scanVars
  BY StepsKeepFiles
<1> QED
  BY <1>1, FilesInit, FilesNext, ListsStayKnown, PTL DEF FileScanSpec, ExistingFilesKept
=============================================================================
