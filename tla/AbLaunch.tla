------------------------------ MODULE AbLaunch ------------------------------
(***************************************************************************)
(* scripts/ab_launcher.py: an experiment file is read, validated against    *)
(* the tree it names, and rendered as one terminal block per arm; each arm  *)
(* is then started in a terminal with settings of its own.                  *)
(*                                                                          *)
(* Abstractions: one setting stands for all that are checked alike; a text  *)
(* is a string the gateway can or cannot read; a model registry is named by *)
(* the alias it declares. Seconds are whole and below a million, where      *)
(* _format_seconds is exact.                                                *)
(***************************************************************************)
EXTENDS Integers, Sequences

CONSTANTS
  Setup,      \* [experiment, tree]: a file, and what the directory it names holds
  Terminal,   \* settings a terminal may carry, by key
  Unset

\* REQUIRED_SHARED_ENV_KEYS, the keys an arm owns, a credential, any other.
Required == {"DEFAULT_MODEL", "MODELS_CONFIG", "REPOSITORY_PATH", "COMPARISON_ENABLED", "RANKING_ENABLED",
             "INTENT_RULES", "INTENT_BUDGETS", "MAX_TOKENS", "HISTORY_CAP_TOKENS"}
Owned == {"SESSION_LOG_PATH", "CHANGED_FILES_ENABLED"}
Secret == {"VLLM_API_KEY"}
Key == Required \cup Owned \cup Secret \cup {"EXTRA"}

\* Of a file what its parser guarantees: see Loads for what is missing or of
\* another type.
LaunchAssumption ==
  /\ Unset \notin STRING \cup {"true", "false"}
  /\ \A s \in Setup :
       /\ s.experiment.arms \in Seq([id : STRING, port : Int, log : STRING, flag : BOOLEAN,
                                   env : [Key -> STRING \cup {Unset}], setsTimeout : BOOLEAN])
       /\ {s.experiment.provider, s.experiment.harness} \subseteq Nat \cup {Unset}

VARIABLES
  experiment, \* the file
  tree,       \* the directory
  phase,      \* "file", "loaded", "shown" or "refused"
  running     \* by arm, the settings its gateway was started with

vars == <<experiment, tree, phase, running>>

-----------------------------------------------------------------------------
(* Settings *)

Says == [true |-> {"true", "True", "1"}, false |-> {"false", "off"}]
Padded == [true |-> {"true "}, false |-> {"false "}]

\* The directories that path texts name to _same_directory, which expands an
\* environment variable, and the registry a text declares.
Directory == [here |-> 1, HERE |-> 1, variable |-> 1, elsewhere |-> 2]
Registry == [m |-> [alias |-> "m", timeout |-> Unset], n |-> [alias |-> "n", timeout |-> Unset],
             twice |-> [alias |-> "m", timeout |-> Unset], slow |-> [alias |-> "m", timeout |-> 600]]

\* The texts that _value_problems has nothing to say about, key by key: it
\* strips a text before it checks it, and looks at the shape of a JSON text.
Texts ==
  [REPOSITORY_PATH |-> DOMAIN Directory, COMPARISON_ENABLED |-> Says.true \cup Says.false \cup Padded.true \cup Padded.false,
   RANKING_ENABLED |-> {"true", "false"} \cup Padded.true \cup Padded.false, INTENT_RULES |-> {"{}", "unknown intent"},
   INTENT_BUDGETS |-> {"EXPLAIN:7"}, MAX_TOKENS |-> {"7", "7 "}, HISTORY_CAP_TOKENS |-> {"7", "0"},
   MODELS_CONFIG |-> {"m", "n", "twice"}]

\* A plausible bug: the timeout of a registry entry goes unnoticed.
AcceptedWithTimeout(key) == IF key = "MODELS_CONFIG" THEN DOMAIN Registry ELSE Texts[key]

Accepted(key) == Texts[key]

Sound(key, text) == text \in {Unset, ""} \/ key \notin DOMAIN Texts \/ text \in Accepted(key)

-----------------------------------------------------------------------------
(* What an arm is given *)

Shared == experiment.shared
Arms == experiment.arms

FormatBool(b) == IF b THEN "true" ELSE "false"

\* arm_environment
ArmEnvironment(arm) ==
  [k \in Key |->
     CASE k = "SESSION_LOG_PATH" -> arm.log
       [] k = "CHANGED_FILES_ENABLED" -> FormatBool(arm.flag)
       [] k \in Secret -> Unset
       [] OTHER -> IF arm.env[k] # Unset THEN arm.env[k] ELSE Shared[k]]

-----------------------------------------------------------------------------
(* Validation *)

\* experiment_from_dict: no field is missing or of another type.
Loads == experiment.wrong = {}

ShapeSound == experiment.name # "" /\ experiment.worktree # "" /\ Len(Arms) = 2

SharedSound ==
  /\ \A k \in Required : Shared[k] # Unset /\ (Shared[k] = "" => k = "INTENT_BUDGETS")
  /\ \A k \in Key \ Secret : Sound(k, Shared[k])
  /\ \A k \in Secret : Shared[k] = Unset
  /\ ~experiment.sharesTimeout

\* A plausible bug: the harness may give up with the provider.
TimeoutsSoundWithoutMargin ==
  /\ experiment.provider # Unset /\ experiment.harness # Unset
  /\ experiment.provider > 0 /\ experiment.harness >= experiment.provider

Margin == 30
TimeoutsSound ==
  /\ experiment.provider # Unset /\ experiment.harness # Unset
  /\ experiment.provider > 0 /\ experiment.harness >= experiment.provider + Margin

\* A plausible bug: the paths of the logs are compared as they are written.
LogFileAsWritten(path) == path

\* str(Path(...)) drops a "." from the path of a log, but not a "..".
LogFile(path) == IF path = "/./log" THEN "/log" ELSE path

Port == 1 .. 65535

ArmSound(arm) ==
  /\ arm.id # "" /\ arm.port \in Port /\ arm.log \notin {"", "log"}
  /\ \A k \in Required \cup Owned \cup Secret : arm.env[k] = Unset
  /\ \A k \in Key : Sound(k, arm.env[k])
  /\ ~arm.setsTimeout

Differ(arm, other) == /\ arm.id # other.id /\ arm.port # other.port
                      /\ LogFile(arm.log) # LogFile(other.log) /\ arm.flag # other.flag

ArmsSound == /\ \A i \in DOMAIN Arms : ArmSound(Arms[i])
             /\ \A i, j \in DOMAIN Arms : i # j => Differ(Arms[i], Arms[j])

ComparisonSound == Shared["COMPARISON_ENABLED"] \notin Says.false \cup Padded.false

\* A plausible bug: only what is shared is compared.
SymmetrySoundWhereShared ==
  \A i, j \in DOMAIN Arms : \A k \in Required : ArmEnvironment(Arms[i])[k] = ArmEnvironment(Arms[j])[k]

\* No difference outside ALLOWED_ARM_ENV_KEYS.
SymmetrySound ==
  \A i, j \in DOMAIN Arms : \A k \in Key \ Owned : ArmEnvironment(Arms[i])[k] = ArmEnvironment(Arms[j])[k]

ModelSound == Shared["MODELS_CONFIG"] \in DOMAIN Registry
                => Shared["DEFAULT_MODEL"] = Registry[Shared["MODELS_CONFIG"]].alias

HarnessSound == experiment.repeat >= 1 /\ (experiment.maxTokens # Unset => experiment.maxTokens > 0)

\* inspect_worktree: a .git file whose gitdir: leads to an administration
\* directory under worktrees/, the HEAD of which holds a commit.
Marker ==
  CASE tree.git = "directory" -> "clone"
    [] tree.git = "file" /\ tree.gitdir = "gone" -> "stale"
    [] tree.git = "file" /\ tree.gitdir = "worktrees" -> "linked"
    [] OTHER -> "none"
Detached == Marker = "linked" /\ tree.head = "commit"

\* A plausible bug: a .env that names no setting of the file is let through.
TreeSoundBesideDotenv ==
  /\ tree.exists /\ Shared["REPOSITORY_PATH"] \in DOMAIN Directory
  /\ Directory[Shared["REPOSITORY_PATH"]] = Directory[experiment.worktree]
  /\ Detached /\ tree.complete

TreeSound ==
  /\ tree.exists /\ Shared["REPOSITORY_PATH"] \in DOMAIN Directory
  /\ Directory[Shared["REPOSITORY_PATH"]] = Directory[experiment.worktree]
  /\ tree.dotenv = Unset
  /\ Detached /\ tree.complete

Valid == /\ ShapeSound /\ SharedSound /\ TimeoutsSound /\ ArmsSound /\ ComparisonSound
         /\ SymmetrySound /\ ModelSound /\ HarnessSound /\ TreeSound

-----------------------------------------------------------------------------
(* The commands, and the terminals their blocks are pasted into *)

Init == /\ \E s \in Setup : experiment = s.experiment /\ tree = s.tree
        /\ phase = "file" /\ running = [i \in 1 .. Len(Arms) |-> Unset]

Load == /\ phase = "file"
        /\ phase' = IF Loads THEN "loaded" ELSE "refused"
        /\ UNCHANGED <<experiment, tree, running>>

\* show: the blocks of a valid experiment, or the reasons it has none.
Show == /\ phase = "loaded"
        /\ phase' = IF Valid THEN "shown" ELSE "refused"
        /\ UNCHANGED <<experiment, tree, running>>

\* A gateway reads a .env first, then its block, then the terminal (main.py).
Start(i, terminal) ==
  LET given == ArmEnvironment(Arms[i])
      Over(own, k) == IF tree.dotenv # Unset /\ tree.dotenv[k] # Unset THEN tree.dotenv[k] ELSE own
  IN /\ phase = "shown" /\ running[i] = Unset
     /\ running' = [running EXCEPT ![i] =
          [port |-> Arms[i].port, timeout |-> experiment.provider,
           settings |-> [k \in Key |-> Over(IF given[k] # Unset THEN given[k] ELSE terminal[k], k)]]]
     /\ UNCHANGED <<experiment, tree, phase>>

Next == \/ Load \/ Show
        \/ \E i \in DOMAIN running, t \in Terminal : Start(i, t)

Spec == Init /\ [][Next]_vars

-----------------------------------------------------------------------------
(* Properties *)

\* What a gateway makes of a text: a boolean field, which is not stripped, a
\* comparison with "false", a registry of models, a number, rules of which those
\* it cannot use are dropped, a path as it is. "fails" is a gateway that does
\* not start, "misread" one that runs on something else than was written.
Reading(k, text) ==
  CASE k \in {"COMPARISON_ENABLED", "CHANGED_FILES_ENABLED"} ->
         IF text \in Says.true THEN "on" ELSE IF text \in Says.false THEN "off" ELSE "fails"
    [] k = "RANKING_ENABLED" ->
         IF text = "false" THEN "off" ELSE IF text \in {"true"} \cup Padded.true THEN "on" ELSE "misread"
    [] k \in {"MAX_TOKENS", "HISTORY_CAP_TOKENS"} -> IF text \in {"7", "7 ", "0", "-1"} THEN text ELSE "fails"
    [] k = "INTENT_RULES" -> IF text = "{}" THEN text ELSE "misread"
    [] k = "MODELS_CONFIG" ->
         IF text = "twice" THEN "fails" ELSE IF text \in DOMAIN Registry THEN text ELSE "misread"
    [] k = "REPOSITORY_PATH" -> IF text = "variable" THEN "misread" ELSE text
    [] OTHER -> text

\* What the launcher lets through all the same: blanks around a boolean, rules
\* for an intent there is none of, a model declared twice, a variable in a path.
LetThrough(k) ==
  CASE k \in {"COMPARISON_ENABLED", "RANKING_ENABLED"} -> Padded.true \cup Padded.false
    [] k = "INTENT_RULES" -> {"unknown intent"}
    [] k = "MODELS_CONFIG" -> {"twice"}
    [] k = "REPOSITORY_PATH" -> {"variable"}
    [] OTHER -> {}

\* The file a path leads to, and the paths that lead to it by a detour.
File(path) == IF path \in {"/./log", "/x/../log"} THEN "/log" ELSE path
Detour == {"/x/../log"}

\* The seconds after which an arm gives up on its provider: those of the model
\* come before REQUEST_TIMEOUT (router.py).
ProviderTimeout(arm) ==
  LET own == Registry[arm.settings["MODELS_CONFIG"]].timeout IN IF own # Unset THEN own ELSE arm.timeout

\* Two gateways started from the blocks of one experiment, each in a terminal
\* with leftovers of its own, read the same settings, except the one under test,
\* and read each as it was written, unless it is one of the texts that the
\* launcher lets through; they log under paths that differ, and to files that
\* differ if none is reached by a detour; they index the tree they run from,
\* serve the model asked for and give up before the harness does. A setting
\* the file forgets would come from the terminal of one arm only.
LaunchIsIsolated ==
  Len(running) = 2 /\ running[1] # Unset /\ running[2] # Unset =>
    LET Read(i, k) == Reading(k, running[i].settings[k])
        Log(i) == running[i].settings["SESSION_LOG_PATH"]
    IN
    /\ \A k \in Required :
         /\ Read(1, k) = Read(2, k)
         /\ running[1].settings[k] \notin LetThrough(k) => Read(1, k) \notin {"fails", "misread"}
    /\ {Read(1, "CHANGED_FILES_ENABLED"), Read(2, "CHANGED_FILES_ENABLED")} = {"on", "off"}
    /\ Read(1, "COMPARISON_ENABLED") # "off"
    /\ running[1].port # running[2].port
    /\ LogFile(Log(1)) # LogFile(Log(2)) /\ ({Log(1), Log(2)} \cap Detour = {} => File(Log(1)) # File(Log(2)))
    /\ \A i \in 1 .. 2 :
         /\ ProviderTimeout(running[i]) + Margin <= experiment.harness
         /\ Read(i, "REPOSITORY_PATH") # "misread" =>
              Directory[running[i].settings["REPOSITORY_PATH"]] = Directory[experiment.worktree]
         /\ Registry[running[i].settings["MODELS_CONFIG"]].alias = Shared["DEFAULT_MODEL"]
    /\ \A i \in 1 .. 2 : \A k \in Key \ (Required \cup Owned \cup Secret) :
         ArmEnvironment(Arms[i])[k] # Unset => running[1].settings[k] = running[2].settings[k]
=============================================================================
