----------------------------- MODULE EngineDetect ----------------------------
(***************************************************************************)
(* Which hook a node drives its engine through: NodeDaemon's choice when   *)
(* it is made and started, EngineHookFactory.create, and the probes of     *)
(* auto_detect, while the engine boots, dies and answers late.             *)
(*                                                                         *)
(* An action is what runs between two awaits; each probe is one request.   *)
(* A hook is named by its engine, aliases by what they stand for.          *)
(*                                                                         *)
(* An operator marked "Mutant" is a plausible bug of the one below it; no  *)
(* specification uses it.                                                  *)
(***************************************************************************)
EXTENDS Integers

CONSTANTS
  Retries,      \* rounds of probes asked of auto_detect
  Faults        \* the faults that may happen

FaultKinds ==
  { "late",         \* an engine that is up does not answer a probe in time
    "garbled",      \* the JSON of /health cannot be read
    "restart" }     \* the engine's process ends and may be started again

ASSUME DetectAssumption == Retries \in Nat /\ Faults \subseteq FaultKinds

Backends == {"triton", "tgi", "sglang", "vllm", "mock"}

\* What runs at the URL; "other" is an engine with a plain /health.
Engines == Backends \cup {"other"}

VARIABLES
  engine,       \* the engine at the URL
  up,           \* it answers requests
  entry,        \* who is called: "daemon", "create" or "auto_detect"
  asked,        \* the engine_type asked for: "auto", a backend or "unknown"
  override,     \* SGM_ENGINE_TYPE: "none", a backend or "unknown"
  strict,       \* strict_detection was given
  fallback,     \* the fallback given, "none" if none was
  given,        \* an HTTP session was given
  stage,        \* where the call is
  probe,        \* the probe that is under way, by its place in the order
  attempt,      \* attempts made before this one
  http,         \* the HTTP session: "none", "open" or "closed"
  detected,     \* what auto_detect found, "none" if nothing
  missed,       \* a probe that the engine serves was not answered, as history
  hook          \* the hook, "none" without one

call == <<entry, asked, override, strict, fallback, given>>
vars == <<engine, up, call, stage, probe, attempt, http, detected, missed, hook>>

Stages == {"new", "made", "asked", "probing", "resting", "found", "nothing",
           "serving", "returned", "raised"}

\* The path each probe asks for, in the order of the probes.
Order == <<"/v2/health/ready", "/info", "/get_model_info", "/version", "/health">>
Paths == {Order[i] : i \in 1 .. 5}

\* The backend an answer from this path stands for.
Signature == [path \in Paths |->
  CASE path = "/v2/health/ready" -> "triton" [] path = "/info" -> "tgi"
    [] path = "/get_model_info" -> "sglang" [] path = "/version" -> "vllm"
    [] path = "/health" -> "mock"]

\* The paths an engine answers with 200, as its hook's health_check and the tests
\* have it.
Serves == [e \in Engines |->
  CASE e = "triton" -> {"/v2/health/ready"} [] e = "tgi" -> {"/info", "/health"}
    [] e = "sglang" -> {"/get_model_info", "/health"} [] e = "vllm" -> {"/version", "/health"}
    [] e \in {"mock", "other"} -> {"/health"}]

Init ==
  /\ engine \in Engines /\ up \in BOOLEAN
  /\ entry \in {"daemon", "create", "auto_detect"}
  /\ asked \in {"auto", "unknown"} \cup Backends
  /\ override \in {"none", "unknown"} \cup Backends
  /\ strict \in BOOLEAN /\ fallback \in {"none"} \cup Backends /\ given \in BOOLEAN
  /\ (entry = "daemon" => ~strict /\ fallback = "none" /\ ~given)
  /\ (entry = "auto_detect" => asked = "auto" /\ override = "none" /\ ~strict)
  /\ stage = CASE entry = "daemon" -> "new" [] entry = "create" -> "asked"
               [] entry = "auto_detect" -> "probing"
  /\ probe = 1 /\ attempt = 0
  /\ http = IF given \/ entry = "auto_detect" THEN "open" ELSE "none"
  /\ detected = "none" /\ missed = FALSE
  /\ hook = "none"

------------------------------------------------------------------------------
(* The daemon.                                                             *)

\* NodeDaemon.__init__: a hook for the engine_type named, vLLM's for the time
\* being if it is "auto".
Made ==
  /\ stage = "new"
  /\ \/ /\ asked = "unknown"
        /\ stage' = "raised" /\ UNCHANGED hook
     \/ /\ asked # "unknown"
        /\ stage' = "made"
        /\ hook' = IF asked = "auto" THEN "vllm" ELSE asked
  /\ UNCHANGED <<engine, up, call, probe, attempt, http, detected, missed>>

\* start asks the factory if the type is "auto", and serves with the hook it has
\* otherwise.
Started ==
  /\ stage = "made"
  /\ stage' = IF asked = "auto" THEN "asked" ELSE "serving"
  /\ UNCHANGED <<engine, up, call, probe, attempt, http, detected, missed, hook>>

\* Mutant: the error of an unknown override ends the start.
CreateRaisesThrough ==
  /\ stage' = "raised"
  /\ UNCHANGED hook

\* create raises: the daemon goes on with vLLM's hook, another caller does not.
CreateRaises ==
  \/ entry = "daemon" /\ stage' = "serving" /\ hook' = "vllm"
  \/ entry # "daemon" /\ stage' = "raised" /\ UNCHANGED hook

------------------------------------------------------------------------------
(* EngineHookFactory.create.                                               *)

\* The constructor of a hook knows none of the options.
Construct(backend, options) ==
  \/ options /\ CreateRaises
  \/ /\ ~options
     /\ hook' = backend
     /\ stage' = IF entry = "daemon" THEN "serving" ELSE "returned"

Target == IF override # "none" THEN override ELSE asked

\* An explicit type, of the environment before the caller's, is not probed for.
CreateNamed ==
  /\ stage = "asked" /\ Target # "auto"
  /\ IF Target = "unknown" THEN CreateRaises
                           ELSE Construct(Target, strict \/ fallback # "none")
  /\ UNCHANGED <<engine, up, call, probe, attempt, http, detected, missed>>

CreateAuto ==
  /\ stage = "asked" /\ Target = "auto"
  /\ stage' = "probing"
  /\ http' = "open"
  /\ UNCHANGED <<engine, up, call, probe, attempt, detected, missed, hook>>

\* The fallback was taken out of the options, strict_detection was not.
CreateFound ==
  /\ stage = "found" /\ entry # "auto_detect"
  /\ Construct(detected, strict)
  /\ UNCHANGED <<engine, up, call, probe, attempt, http, detected, missed>>

\* EngineDetectionError is raised again if detection is strict; otherwise vLLM it
\* is.
CreateFoundNothing ==
  /\ stage = "nothing" /\ entry # "auto_detect"
  /\ IF strict THEN CreateRaises ELSE Construct("vllm", FALSE)
  /\ UNCHANGED <<engine, up, call, probe, attempt, http, detected, missed>>

------------------------------------------------------------------------------
(* auto_detect.                                                            *)

\* create asks for one round.
Rounds == IF entry = "auto_detect" /\ Retries > 1 THEN Retries ELSE 1

\* Mutant: the session is closed once an engine is found.
ReleaseIfFound == http' = IF given \/ stage' # "found" THEN http ELSE "closed"

\* finally: a session made here is closed.
Release == http' = IF given THEN http ELSE "closed"

\* Mutant: the plain /health is asked before TGI's /info.
PathHealthFirst == CASE probe = 2 -> Order[5] [] probe = 5 -> Order[2] [] OTHER -> Order[probe]

Path == Order[probe]

\* What a 200 stands for: /health is the mock engine's only with its fields in the
\* body, and else some engine's that is driven like vLLM.
Answered ==
  /\ stage = "probing" /\ up
  /\ Path \in Serves[engine]
  /\ \/ Path # "/health" /\ detected' = Signature[Path]
     \/ Path = "/health" /\ detected' = IF engine = "mock" THEN "mock" ELSE "vllm"
     \/ Path = "/health" /\ "garbled" \in Faults /\ detected' = "vllm"
  /\ missed' = (missed \/ (engine = "mock" /\ detected' # "mock"))
  /\ stage' = "found"
  /\ Release
  /\ UNCHANGED <<engine, up, call, probe, attempt, hook>>

\* The last probe of the last round.
Exhausted == probe = 5 /\ attempt + 1 >= Rounds

\* Another status, no connection or no answer in time.
NotAnswered ==
  /\ stage = "probing"
  /\ Path \notin Serves[engine] \/ ~up \/ "late" \in Faults
  /\ missed' = (missed \/ Path \in Serves[engine])
  /\ \/ /\ probe < 5
        /\ probe' = probe + 1
        /\ UNCHANGED <<stage, attempt, http, detected>>
     \/ /\ probe = 5 /\ ~Exhausted
        /\ stage' = "resting"
        /\ UNCHANGED <<probe, attempt, http, detected>>
     \/ /\ Exhausted
        /\ stage' = IF fallback = "none" THEN "nothing" ELSE "found"
        /\ detected' = fallback
        /\ Release
        /\ UNCHANGED <<probe, attempt>>
  /\ UNCHANGED <<engine, up, call, hook>>

\* The pause before another round is over.
Rested ==
  /\ stage = "resting"
  /\ stage' = "probing"
  /\ probe' = 1 /\ attempt' = attempt + 1
  /\ UNCHANGED <<engine, up, call, http, detected, missed, hook>>

------------------------------------------------------------------------------
EngineBoots ==
  /\ ~up
  /\ up' = TRUE
  /\ UNCHANGED <<engine, call, stage, probe, attempt, http, detected, missed, hook>>

EngineDies ==
  /\ "restart" \in Faults
  /\ up
  /\ up' = FALSE
  /\ UNCHANGED <<engine, call, stage, probe, attempt, http, detected, missed, hook>>

Caller == Made \/ Started \/ CreateNamed \/ CreateAuto \/ CreateFound \/ CreateFoundNothing

Detect == Answered \/ NotAnswered \/ Rested

Next == Caller \/ Detect \/ EngineBoots \/ EngineDies

Spec == Init /\ [][Next]_vars

\* The loop runs the call on, and every probe has a timeout.
FairSpec == Spec /\ WF_vars(Caller \/ Detect)

------------------------------------------------------------------------------
(* Properties.                                                             *)

TypeOK ==
  /\ engine \in Engines /\ up \in BOOLEAN
  /\ entry \in {"daemon", "create", "auto_detect"}
  /\ asked \in {"auto", "unknown"} \cup Backends
  /\ override \in {"none", "unknown"} \cup Backends
  /\ strict \in BOOLEAN /\ fallback \in Backends \cup {"none"} /\ given \in BOOLEAN
  /\ stage \in Stages
  /\ probe \in 1 .. 5 /\ attempt \in Nat
  /\ http \in {"none", "open", "closed"}
  /\ detected \in Backends \cup {"none"}
  /\ missed \in BOOLEAN
  /\ hook \in Backends \cup {"none"}

\* Detection errs to one side only: whatever the engine does while it is probed,
\* booting and dying included, an engine found by its answers is the one that
\* runs or is taken for vLLM; and it is taken for vLLM only if it is unknown or
\* failed to answer a path it serves.  A fallback is taken behind the last probe
\* only.
DetectionIsRight ==
  stage = "found" =>
    \/ detected = engine
    \/ detected = "vllm" /\ (engine = "other" \/ missed)
    \/ detected = fallback /\ Exhausted

\* A session made for the probes is closed when they are over, and one that was
\* given stays open for its owner.
SessionIsReleased ==
  stage \notin {"new", "made", "asked", "probing", "resting"} =>
    http # IF given THEN "closed" ELSE "open"

\* The daemon serves in the end, with some hook: no answer, error or override
\* keeps it from its start, only an engine_type that no hook has, before it.
DaemonServes ==
  entry = "daemon" /\ asked # "unknown" ~> stage = "serving" /\ hook # "none"
==============================================================================
