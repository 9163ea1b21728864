--------------------------- MODULE StartupProgress ---------------------------
(***************************************************************************)
(* How the start of an engine becomes a percentage: the engine's log, the  *)
(* log analyzer that reads it (log_analyzer.py), the progress file it and  *)
(* the start script append to, and the manager in the health service that  *)
(* reads the file's last line (progress_utils.py).  EngineScript is the    *)
(* script that starts all of them.                                         *)
(*                                                                         *)
(* Lines no pattern matches are left out: they only put off a time-out.    *)
(* Of the progress file only the last line is kept: nothing reads another. *)
(* The analyzer's waiting time counts whole time-outs of 300 seconds.      *)
(***************************************************************************)
EXTENDS LogStages

CONSTANTS
    PluginsImport,  (* _load_plugin's import of the plugin classes succeeds *)
    FailAfter,      (* _max_total_timeout, in units of timeout_seconds *)
    MaxUnread,      (* bound on the lines the engine is ahead of the analyzer *)
    MaxAhead        (* bound on what the manager's increments are ahead of the file *)

ASSUME ProgressAssumption ==
    /\ PluginsImport \in BOOLEAN
    /\ FailAfter \in Nat \ {0} /\ MaxUnread \in Nat \ {0} /\ MaxAhead \in Nat \ {0}

VARIABLES
    lines,      \* lines of engine.log the analyzer has not read
    analyzer,   \* its process: "off", "loading", "catchup" or "live"
    phase,      \* current_phase
    progress,   \* current_progress
    silent,     \* elapsed_time, in time-outs, up to FailAfter
    ready,      \* is_completed
    file,       \* the last line of the progress file
    view        \* the StartupProgressManager of the health service

logVars == <<lines, analyzer, phase, progress, silent, ready, file>>
progressVars == <<lines, analyzer, phase, progress, silent, ready, file, view>>

NoPhase == "none"
Progress(p, s, n) == [phase |-> p, status |-> s, progress |-> n]
NoFile == Progress(NoPhase, "absent", 0)

Statuses == {"absent", "running", "warning", "failed", "completed"}
FilePhases == Phases \cup {NoPhase, "timeout", "error", "engine_crash", "script_error"}

ProgressTypeOK ==
    /\ lines \in Seq([kind : {"mark", "error"}, phase : Phases \cup {NoPhase}, mark : 0..100])
    /\ Len(lines) <= MaxUnread
    /\ analyzer \in {"off", "loading", "catchup", "live"}
    /\ phase \in Phases \cup {NoPhase}
    /\ progress \in 0..100
    /\ silent \in 0..FailAfter
    /\ ready \in BOOLEAN
    /\ file \in [phase : FilePhases, status : Statuses, progress : 0..100]
    /\ view \in [phase : FilePhases, status : Statuses, progress : 0..100]

ProgressInit ==
    /\ lines = <<>>
    /\ analyzer = "off"
    /\ phase = NoPhase
    /\ progress = 0
    /\ silent = 0
    /\ ready = FALSE
    /\ file = NoFile
    /\ view = Progress("init", "running", 0)

(* ---- the log ---- *)
MarkLine(l) == [kind |-> "mark", phase |-> l.phase, mark |-> l.mark]
ErrorLine == [kind |-> "error", phase |-> NoPhase, mark |-> 0]

Listening == analyzer # "off"

(* What is written while no analyzer runs is never read. *)
Log(l) ==
    /\ Listening => Len(lines) < MaxUnread
    /\ lines' = IF Listening THEN Append(lines, l) ELSE <<>>

(* ---- the analyzer ---- *)
(* _write_initial_state of the constructor, unless its import fails *)
AnalyzerStarts ==
    /\ analyzer = "loading"
    /\ IF PluginsImport
       THEN /\ analyzer' = "catchup"
            /\ file' = Progress("init", "running", 5)
            /\ UNCHANGED lines
       ELSE /\ analyzer' = "off"
            /\ lines' = <<>>
            /\ UNCHANGED file
    /\ phase' = NoPhase /\ progress' = 0 /\ silent' = 0 /\ ready' = FALSE
    /\ UNCHANGED view

(* _check_error_patterns: the line fails the start, the analyzer reads on *)
OnError ==
    /\ file' = Progress(IF phase = NoPhase THEN "error" ELSE phase, "failed", progress)
    /\ UNCHANGED <<phase, progress, ready>>

(* The last phase is written like any other. *)
OnMark_NotCompleted(l) ==
    LET now == Max({l.mark, progress}) IN
    /\ phase' = l.phase
    /\ progress' = now
    /\ ready' = (ready \/ l.phase = "ready")
    /\ file' = Progress(l.phase, "running", now)

(* _check_progress_patterns and _mark_completed *)
OnMark(l) ==
    LET now == Max({l.mark, progress}) IN
    /\ phase' = l.phase
    /\ progress' = now
    /\ ready' = (ready \/ l.phase = "ready")
    /\ file' = IF l.phase = "ready" THEN Progress("ready", "completed", 100)
                                    ELSE Progress(l.phase, "running", now)

(* _parse_log_line, and the end of _monitor_new_content once the engine is ready *)
ReadLine ==
    /\ analyzer \in {"catchup", "live"}
    /\ lines # <<>>
    /\ LET l == Head(lines) IN
         CASE l.kind = "mark" -> OnMark(l)
           [] l.kind = "error" /\ analyzer = "live" -> OnError
           [] l.kind = "error" /\ analyzer = "catchup" -> UNCHANGED <<phase, progress, ready, file>>
    /\ silent' = 0
    /\ IF analyzer = "live" /\ ready'
       THEN analyzer' = "off" /\ lines' = <<>>
       ELSE UNCHANGED analyzer /\ lines' = Tail(lines)
    /\ UNCHANGED view

(* _read_existing_content has reached the end of the file. *)
CatchesUp ==
    /\ analyzer = "catchup" /\ lines = <<>>
    /\ analyzer' = IF ready THEN "off" ELSE "live"
    /\ UNCHANGED <<lines, phase, progress, silent, ready, file, view>>

(* _probe_backend_health asks 127.0.0.1 unless told otherwise; an engine that listens on *)
(* its pod's address only does not answer there, ready or not.                            *)
MayAnswer(answered, healthy) == answered => healthy

(* 300 seconds without a line: _check_timeout and _handle_timeout *)
Silence(healthy) ==
    /\ analyzer = "live" /\ lines = <<>>
    /\ silent' = LeastOf(silent + 1, FailAfter)
    /\ \E answered \in BOOLEAN :
         /\ MayAnswer(answered, healthy)
         /\ IF phase = "server_checking" /\ progress >= 99 /\ answered
            THEN /\ ready' = TRUE
                 /\ analyzer' = "off"
                 /\ file' = Progress("ready", "completed", 100)
            ELSE /\ file' = Progress(IF phase = NoPhase THEN "timeout" ELSE phase,
                                     IF silent' = FailAfter THEN "failed" ELSE "warning", progress)
                 /\ UNCHANGED <<ready, analyzer>>
    /\ UNCHANGED <<lines, phase, progress, view>>


(* ---- the manager of the health service ---- *)
(* StartupProgressManager.stage_definitions; its phases are not all of the plugins' *)
PhaseMax == [init |-> 5, accel_enabling |-> 20, engine_booting |-> 30, model_loading |-> 60,
             model_compiling |-> 75, cuda_graph_capturing |-> 98, server_checking |-> 99, ready |-> 100]

MayIncrement_UpToMax(p, n) == p \in DOMAIN PhaseMax /\ n <= PhaseMax[p]
MayIncrement(p, n) == p \in DOMAIN PhaseMax /\ n < PhaseMax[p]

(* update_from_file *)
Updated(v, f) ==
    [phase |-> f.phase, status |-> f.status,
     progress |-> CASE f.progress > v.progress -> f.progress
                    [] f.progress <= v.progress /\ f.status = "running" /\ MayIncrement(f.phase, v.progress)
                         -> v.progress + 1
                    [] OTHER -> v.progress]

(* GET /v1/startup/progress *)
Poll ==
    /\ file.status # "absent"
    /\ view' = Updated(view, file)
    /\ view'.progress > view.progress => view'.progress <= file.progress + MaxAhead
    /\ UNCHANGED logVars

(* The health service is restarted: a new manager *)
ServiceRestarts ==
    /\ view' = Progress("init", "running", 0)
    /\ UNCHANGED logVars
=============================================================================
