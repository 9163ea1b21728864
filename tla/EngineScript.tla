---------------------------- MODULE EngineScript ----------------------------
(***************************************************************************)
(* core/wings_entry.py: the start script the launcher writes for the       *)
(* engine's container, and what happens when it runs.  The launcher makes  *)
(* two commands, the second without the advanced features, and writes      *)
(* advanced_features.json; the script starts the log analyzer, installs    *)
(* patches, starts the engine, waits for it, and when it fails starts it   *)
(* once more.  The analyzer and the progress file are StartupProgress.     *)
(*                                                                         *)
(* The container runs the script again when it has ended; the launcher may *)
(* make its plan again at any time (its second attempt, or its restart).   *)
(***************************************************************************)
EXTENDS StartupProgress, FeaturePlan

CONSTANTS
    Inputs,         (* what launches may be asked for *)
    MaxRuns         (* bound on how often the container runs the script *)

(* accel: how patches are installed *)
Input == [speculative : BOOLEAN, sparse : {"off", "index", "fp8", "noop"},
          offload : Offloads,
          userOptions : SUBSET {"speculative_config"},
          accel : {"off", "auto", "override", "missing"}, master : BOOLEAN, plugin : Plugins]

ASSUME ScriptAssumption ==
    Inputs \subseteq Input /\ MaxRuns \in Nat \ {0}

VARIABLES
    input,      \* what this launch was asked for
    script,     \* what the launcher wrote: the features each start command turns on
    claimed,    \* the features advanced_features.json reports
    stale,      \* the launcher wrote them again over what this run of the script had changed
    unpatched,  \* patches this run of the script has not got installed
    pc,         \* where the running script is
    engine,     \* [state, features, at]: at counts the lines of its start it has logged
    second,     \* the second start was made in this run
    crashed,    \* the engine failed by itself in this run
    termed,     \* the script got SIGTERM in this run
    runs,       \* runs of the script so far
    served,     \* some engine has been ready
    code        \* the script's exit code: 0, or 1 for any other

scriptVars == <<input, script, claimed, stale, unpatched, pc, engine, second, crashed, termed, runs, served, code>>
vars == <<scriptVars, progressVars>>
-----------------------------------------------------------------------------
NoEngine == [state |-> "none", features |-> {}, at |-> 0]
Started(features) == [state |-> "up", features |-> features, at |-> 0]

TypeOK ==
    /\ ProgressTypeOK
    /\ input \in Inputs
    /\ script \in [main : SUBSET Feature, again : SUBSET Feature]
    /\ claimed \in SUBSET Feature
    /\ unpatched \in SUBSET Patch
    /\ stale \in BOOLEAN /\ served \in BOOLEAN
    /\ pc \in {"begin", "install", "start", "wait", "clean", "restart", "wait2", "report", "quit", "ended"}
    /\ engine \in [state : {"none", "up", "stopping", "crashed", "exited"},
                   features : SUBSET Feature, at : 0..Len(LineTable[input.plugin])]
    /\ second \in BOOLEAN /\ crashed \in BOOLEAN /\ termed \in BOOLEAN
    /\ runs \in 0..MaxRuns
    /\ code \in {0, 1}

(* build_launcher_plan has run and the script is on the shared volume. *)
Init ==
    /\ ProgressInit
    /\ input \in Inputs
    /\ script = Plan(input)
    /\ claimed = Reported(input)
    /\ unpatched = {}
    /\ stale = FALSE /\ served = FALSE
    /\ pc = "begin"
    /\ engine = NoEngine
    /\ second = FALSE /\ crashed = FALSE /\ termed = FALSE
    /\ runs = 1
    /\ code = 0
-----------------------------------------------------------------------------
(* The script *)

Lines == LineTable[input.plugin]
Healthy == engine.state = "up" /\ engine.at = Len(Lines)

Running == pc \notin {"begin", "ended"}

(* kill and wait: nothing more is read or written by the analyzer. *)
StopAnalyzer ==
    /\ analyzer' = "off" /\ lines' = <<>>
    /\ phase' = NoPhase /\ progress' = 0 /\ silent' = 0 /\ ready' = FALSE
KeepAnalyzer == UNCHANGED <<analyzer, lines, phase, progress, silent, ready>>

Failed(p) == Progress(p, "failed", 0)

End(c) == pc' = "ended" /\ code' = c

(* _build_analyzer_preamble: old files are removed and the analyzer is started on the master. *)
Begin ==
    /\ pc = "begin"
    /\ pc' = "install"
    /\ IF input.master
       THEN /\ analyzer' = "loading" /\ file' = NoFile
            /\ UNCHANGED <<lines, phase, progress, silent, ready>>
       ELSE KeepAnalyzer /\ UNCHANGED file
    /\ stale' = FALSE
    /\ UNCHANGED <<input, script, claimed, unpatched, engine, second, crashed, termed, runs, served, code, view>>

(* _build_accel_preamble: the feature of a patch that does not install is reported as off. *)
(* Of the list a user gives himself (override) one installation is tried and nothing is    *)
(* recorded; where there is no installer, and without the acceleration, nothing is tried.  *)
Unrecorded(i) ==
    CASE i.accel = "auto"     -> {}
      [] i.accel = "override" -> {"ears", "indexcache"}
      [] OTHER -> Patch

MayFail(i) == IF i.accel \in {"auto", "override"} THEN SUBSET Patches(i) ELSE {Patches(i)}

(* The script goes on after a failed installation and says nothing. *)
Install_Silent ==
    /\ pc = "install"
    /\ pc' = "start"
    /\ unpatched' \in MayFail(input)
    /\ UNCHANGED <<input, script, claimed, stale, engine, second, crashed, termed, runs, served, code, progressVars>>

Install ==
    /\ pc = "install"
    /\ pc' = "start"
    /\ unpatched' \in MayFail(input)
    /\ claimed' = claimed \ FeaturesWith(unpatched' \ Unrecorded(input))
    /\ UNCHANGED <<input, script, stale, engine, second, crashed, termed, runs, served, code, progressVars>>

(* Under set -e a command before the first start ends the script (cleanup_analyzer, no ENGINE_PID). *)
EarlyFailure ==
    /\ pc \in {"install", "start"}
    /\ End(1)
    /\ IF input.master THEN StopAnalyzer /\ file' = Failed("script_error")
                       ELSE KeepAnalyzer /\ UNCHANGED file
    /\ UNCHANGED <<input, script, claimed, stale, unpatched, engine, second, crashed, termed, runs, served, view>>

StartEngine ==
    /\ pc = "start"
    /\ pc' = "wait"
    /\ engine' = Started(script.main)
    /\ UNCHANGED <<input, script, claimed, stale, unpatched, second, crashed, termed, runs, served, code, progressVars>>

(* The engine exits by itself, or as SIGTERM told it. *)
EngineStops(state) ==
    /\ engine.state \in {"up", "stopping"}
    /\ engine' = [engine EXCEPT !.state = state]
    /\ crashed' = (crashed \/ (engine.state = "up" /\ state = "crashed"))
    /\ UNCHANGED <<input, script, claimed, stale, unpatched, pc, second, termed, runs, served, code, progressVars>>

(* wait returns 0 in either place. *)
EngineDone ==
    /\ pc \in {"wait", "wait2"} /\ engine.state = "exited"
    /\ End(0)
    /\ StopAnalyzer
    /\ UNCHANGED <<input, script, claimed, stale, unpatched, engine, second, crashed, termed, runs, served, file, view>>

(* wait returns anything else: the engine failed, or a signal has come (Terminate). *)
EngineFailed ==
    /\ engine.state = "crashed"
    /\ \/ pc = "wait"  /\ pc' = "clean"
       \/ pc = "wait2" /\ pc' = "report"
    /\ UNCHANGED <<input, script, claimed, stale, unpatched, engine, second, crashed, termed, runs, served, code, progressVars>>

(* The fallback writes the features off; a retry leaves them. *)
CleanUp ==
    /\ pc = "clean"
    /\ pc' = "restart"
    /\ claimed' = IF Active(input) THEN {} ELSE claimed
    /\ UNCHANGED <<input, script, stale, unpatched, engine, second, crashed, termed, runs, served, code, progressVars>>

(* A command between the two starts fails: ENGINE_PID is set, so that nothing is reported. *)
RestartFails ==
    /\ pc = "restart"
    /\ End(1)
    /\ IF input.master THEN StopAnalyzer ELSE KeepAnalyzer
    /\ UNCHANGED <<input, script, claimed, stale, unpatched, engine, second, crashed, termed, runs, served, file, view>>

StartAgain ==
    /\ pc = "restart"
    /\ pc' = "wait2"
    /\ engine' = Started(script.again)
    /\ second' = TRUE
    /\ UNCHANGED <<input, script, claimed, stale, unpatched, crashed, termed, runs, served, code, progressVars>>

(* The failure is appended to the progress file, and then the analyzer is killed. *)
ReportFailure ==
    /\ pc = "report"
    /\ pc' = "quit"
    /\ file' = Failed("engine_crash")
    /\ UNCHANGED <<input, script, claimed, stale, unpatched, engine, second, crashed, termed, runs, served, code>>
    /\ UNCHANGED <<lines, analyzer, phase, progress, silent, ready, view>>

Quit ==
    /\ pc = "quit"
    /\ End(1)
    /\ StopAnalyzer
    /\ UNCHANGED <<input, script, claimed, stale, unpatched, engine, second, crashed, termed, runs, served, file, view>>

(* The trap runs cleanup_analyzer and returns: the engine is told to stop, a wait ends *)
(* with the signal's number, any other command is finished first and the script goes   *)
(* on.  Only the master's script has the trap.                                         *)
Terminate ==
    /\ Running /\ ~termed /\ input.master
    /\ termed' = TRUE
    /\ StopAnalyzer
    /\ engine' = IF engine.state = "up" THEN [engine EXCEPT !.state = "stopping"] ELSE engine
    /\ pc' = CASE pc = "wait" -> "clean" [] pc = "wait2" -> "report" [] OTHER -> pc
    /\ file' \in {file} \cup (IF pc = "install" THEN {Failed("script_error")} ELSE {})
    /\ UNCHANGED <<input, script, claimed, stale, unpatched, second, crashed, runs, served, code, view>>
-----------------------------------------------------------------------------
(* Around the script *)

(* The container is restarted with nothing of it left but the shared volume. *)
RunAgain ==
    /\ pc = "ended" /\ runs < MaxRuns
    /\ pc' = "begin"
    /\ runs' = runs + 1
    /\ engine' = NoEngine
    /\ second' = FALSE /\ crashed' = FALSE /\ termed' = FALSE /\ code' = 0
    /\ unpatched' = {}
    /\ StopAnalyzer
    /\ UNCHANGED <<input, script, claimed, stale, served, file, view>>

(* The launcher plans again and writes the same script and the first features. *)
PlanAgain ==
    /\ script' = Plan(input)
    /\ claimed' = Reported(input)
    /\ stale' = (stale \/ (pc \notin {"begin", "install"} /\ claimed # Reported(input)))
    /\ UNCHANGED <<input, unpatched, pc, engine, second, crashed, termed, runs, served, code, progressVars>>

(* The engine logs the next line of its start ... *)
EngineLogs ==
    /\ engine.state = "up" /\ engine.at < Len(Lines)
    /\ Log(MarkLine(Lines[engine.at + 1]))
    /\ engine' = [engine EXCEPT !.at = @ + 1]
    /\ served' = (served \/ engine'.at = Len(Lines))
    /\ UNCHANGED <<input, script, claimed, stale, unpatched, pc, second, crashed, termed, runs, code>>
    /\ UNCHANGED <<analyzer, phase, progress, silent, ready, file, view>>

(* ... or a line one of the error patterns matches, which need not be the end of it. *)
EngineComplains ==
    /\ engine.state = "up" /\ Listening
    /\ Log(ErrorLine)
    /\ UNCHANGED <<analyzer, phase, progress, silent, ready, file, view, scriptVars>>

Script ==
    \/ Begin \/ Install \/ StartEngine \/ EngineDone \/ EngineFailed
    \/ CleanUp \/ StartAgain \/ ReportFailure \/ Quit

Analyzer == (AnalyzerStarts \/ ReadLine \/ CatchesUp) /\ UNCHANGED scriptVars

Next ==
    \/ Script
    \/ EarlyFailure \/ RestartFails \/ Terminate \/ RunAgain \/ PlanAgain
    \/ EngineStops("crashed") \/ EngineStops("exited")
    \/ EngineLogs \/ EngineComplains
    \/ Analyzer
    \/ Silence(Healthy) /\ UNCHANGED scriptVars
    \/ Poll /\ UNCHANGED scriptVars
    \/ ServiceRestarts /\ UNCHANGED scriptVars

Spec == Init /\ [][Next]_vars

(* The script's commands, the engine's start and the analyzer's reading go on by themselves. *)
FairSpec == Spec /\ WF_vars(Script) /\ WF_vars(Analyzer) /\ WF_vars(EngineLogs)
-----------------------------------------------------------------------------
(* What the page is told *)

(* While an engine runs, what is reported is on in its command, but for a sparse cache that *)
(* is nothing on that engine, and has its patches, but for those whose failure the script   *)
(* does not record; unless the launcher wrote the report over what the script had changed.  *)
OnlyUnrecordedIsMisreported ==
    engine.state = "up" /\ ~stale =>
        /\ claimed \subseteq engine.features \cup (IF input.sparse = "noop" THEN {"sparse_kv"} ELSE {})
        /\ claimed \cap FeaturesWith(unpatched \ Unrecorded(input)) = {}

(* wings_entry.py, of advanced_features.json: where installing a patch fails the shell writes *)
(* its feature as false.  (A user's own list of patches is installed and nothing is written.) *)
FailedPatchIsRecorded ==
    engine.state = "up" /\ ~stale => claimed \cap FeaturesWith(unpatched) = {}

(* The second start has none of the advanced features where the plan has one, although both *)
(* commands are built from one engine_config; without any it is the first start once more.   *)
SecondStartAsPromised == script.again = IF Active(input) THEN {} ELSE script.main

(* Until an engine has been ready for the first time no start is shown as complete, and no  *)
(* progress of 100: not by the manager's own increments, nor by a phase that began again    *)
(* after a crash.  (Once one has been, the page keeps its 100 through the next start.)      *)
NothingCompleteBeforeFirstReady == view.progress = 100 \/ view.status = "completed" => served

(* What a live analyzer sees become ready is reported as completed, unless the engine ends *)
(* or the script is told to, as far as the engine's log has a line that says so.            *)
ReadyIsReported ==
    (Healthy /\ analyzer = "live" /\ input.plugin # "unlisted")
        ~> (file.status = "completed" \/ engine.state # "up" \/ termed)

(* Once a master's engine is ready, something has been written to the progress file. *)
ProgressIsWritten ==
    (Healthy /\ input.master) ~> (file.status # "absent" \/ engine.state # "up" \/ termed)

(* The second start is made because the engine failed, the one case the code's comment names. *)
SecondStartAfterCrash == second => crashed
=============================================================================
