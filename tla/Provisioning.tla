---------------------------- MODULE Provisioning ----------------------------
(***************************************************************************)
(* Preparing a host for a session (subsystems/session/preparation.go): the *)
(* provisioning script, run command by command on a login node.  A call    *)
(* that times out gives the host up while its script may still run, so the *)
(* next call's script can overlap it; people install builds by hand; any   *)
(* script may be killed.  A version is a release number and whether it is  *)
(* a build ahead of that release; a file is named by the script that       *)
(* created it, so that a move is visible to who still writes to it.        *)
(***************************************************************************)
EXTENDS Naturals

CONSTANTS
    Scripts,       \* provisionSession calls, each with its script and document
    NoFile,
    MaxRelease,    \* bound: releases published
    Floor          \* linkspanFloor

ASSUME ProvisionAssumption == NoFile \notin Scripts /\ MaxRelease \in Nat \ {0} /\ Floor \in Nat

VARIABLES
    publishedRelease, \* the latest release on GitHub
    binary,           \* the Linkspan at its path
    workflow,         \* the file at $workflow
    workflowStaged,   \* the file at $workflow.staged
    text,             \* what is in a workflow file
    script,           \* a provisioning script
    hostPreparation,  \* the call that holds the host, if any
    disturbed         \* history: scripts since whose start somebody else changed the host

provisionVars == <<publishedRelease, binary, workflow, workflowStaged, text, script, hostPreparation, disturbed>>

Version(n, build) == [release |-> n, build |-> build, whole |-> TRUE]
NoVersion == Version(0, FALSE)
Partial == [NoVersion EXCEPT !.whole = FALSE]
Versions == {Version(n, b) : n \in 0 .. MaxRelease, b \in BOOLEAN} \cup {Partial}
NoText == [of |-> NoFile, whole |-> FALSE]
NotBegun == [at |-> "none", installed |-> NoVersion, latest |-> 0, download |-> NoVersion, file |-> NoFile]

ProvisionInit ==
    /\ publishedRelease \in 0 .. 1
    /\ binary = NoVersion
    /\ workflow = NoFile
    /\ workflowStaged = NoFile
    /\ text = [f \in Scripts |-> NoText]
    /\ script = [s \in Scripts |-> NotBegun]
    /\ hostPreparation = NoFile
    /\ disturbed = {}

Running(s) == script[s].at \notin {"none", "complete", "error", "killed"}

Disturbs(s) == disturbed' = disturbed \cup {t \in Scripts \ {s} : script[t].at # "none"}

(* An action of script s that leaves the host's files alone.               *)
ScriptBecomes(s, state) ==
    /\ script' = [script EXCEPT ![s] = state]
    /\ UNCHANGED <<publishedRelease, hostPreparation, disturbed>>

At(s, at) == [script[s] EXCEPT !.at = at]

----------------------------------------------------------------------------
(* One call at a time holds the host, for at most provisionTimeout; its    *)
(* script may outlive it.                                                  *)

provisionSession(s) ==
    /\ script[s].at = "none"
    /\ hostPreparation = NoFile
    /\ hostPreparation' = s
    /\ script' = [script EXCEPT ![s].at = "look"]
    /\ disturbed' = IF \E t \in Scripts : Running(t) THEN disturbed \cup {s} ELSE disturbed
    /\ UNCHANGED <<publishedRelease, binary, workflow, workflowStaged, text>>

Return(s) ==
    /\ hostPreparation = s
    /\ hostPreparation' = NoFile
    /\ UNCHANGED <<publishedRelease, binary, workflow, workflowStaged, text, script, disturbed>>

Look(s) ==
    /\ script[s].at = "look"
    /\ ScriptBecomes(s, [At(s, "latest") EXCEPT !.installed = binary])
    /\ UNCHANGED <<binary, workflow, workflowStaged, text>>

AskLatest(s) ==
    /\ script[s].at = "latest"
    /\ \E latest \in {0, publishedRelease} : ScriptBecomes(s, [At(s, "decide") EXCEPT !.latest = latest])
    /\ UNCHANGED <<binary, workflow, workflowStaged, text>>

KeepAny(installed, latest) == installed.release > 0

(* keep: a working binary beats a guess, a higher number beats the release *)
(* and the release itself is not fetched again.                            *)
Keep(installed, latest) ==
    /\ installed.release > 0
    /\ \/ latest = 0
       \/ installed.release > latest
       \/ installed.release = latest /\ ~installed.build

Decide(s) ==
    /\ script[s].at = "decide"
    /\ ScriptBecomes(s, At(s, IF Keep(script[s].installed, script[s].latest) THEN "floor" ELSE "download"))
    /\ UNCHANGED <<binary, workflow, workflowStaged, text>>

(* curl | tar > .linkspan.$$: the file is the process's own.               *)
Download(s) ==
    /\ script[s].at = "download"
    /\ \/ /\ publishedRelease > 0
          /\ ScriptBecomes(s, [At(s, "check") EXCEPT !.download = Version(publishedRelease, FALSE)])
       \/ ScriptBecomes(s, [At(s, "check") EXCEPT !.download = Partial])
    /\ UNCHANGED <<binary, workflow, workflowStaged, text>>

InstallAnything(download) == TRUE

Installable(download) == download.whole

(* A download that tar did not finish is removed.                          *)
CheckDownload(s) ==
    /\ script[s].at = "check"
    /\ ScriptBecomes(s, At(s, IF Installable(script[s].download) THEN "install" ELSE "error"))
    /\ UNCHANGED <<binary, workflow, workflowStaged, text>>

Install(s) ==
    /\ script[s].at = "install"
    /\ script' = [script EXCEPT ![s].at = "floor"]
    /\ binary' = script[s].download
    /\ Disturbs(s)
    /\ UNCHANGED <<publishedRelease, hostPreparation, workflow, workflowStaged, text>>

Supported(version) == version.release >= Floor /\ version.whole

CheckFloor(s) ==
    /\ script[s].at = "floor"
    /\ ScriptBecomes(s, At(s, IF Supported(binary) THEN "stage" ELSE "error"))
    /\ UNCHANGED <<binary, workflow, workflowStaged, text>>

(* The redirection truncates the staged file, whoever created it, and      *)
(* base64 then writes to what was opened.                                  *)
Stage(s) ==
    /\ script[s].at = "stage"
    /\ workflowStaged' = IF workflowStaged = NoFile THEN s ELSE workflowStaged
    /\ text' = [text EXCEPT ![workflowStaged'] = [of |-> s, whole |-> FALSE]]
    /\ script' = [script EXCEPT ![s].at = "write", ![s].file = workflowStaged']
    /\ Disturbs(s)
    /\ UNCHANGED <<publishedRelease, hostPreparation, binary, workflow>>

Write(s) ==
    /\ script[s].at = "write"
    /\ text' = [text EXCEPT ![script[s].file] = [of |-> s, whole |-> TRUE]]
    /\ script' = [script EXCEPT ![s].at = "move", ![s].file = NoFile]
    /\ Disturbs(s)
    /\ UNCHANGED <<publishedRelease, hostPreparation, binary, workflow, workflowStaged>>

(* [ -s "$staged" ] && mv: also a file that another script has truncated  *)
(* and begun to fill.                                                      *)
MoveWorkflow(s) ==
    /\ script[s].at = "move"
    /\ workflowStaged # NoFile
    /\ script' = [script EXCEPT ![s].at = "complete"]
    /\ workflow' = workflowStaged
    /\ workflowStaged' = NoFile
    /\ Disturbs(s)
    /\ UNCHANGED <<publishedRelease, hostPreparation, binary, text>>

(* || rm -f "$staged": the directory cannot be made, the file not opened   *)
(* or not filled, or it is empty or gone when it is to be moved.           *)
WorkflowError(s) ==
    /\ script[s].at \in {"stage", "write", "move"}
    /\ script' = [script EXCEPT ![s].at = "error", ![s].file = NoFile]
    /\ workflowStaged' = NoFile
    /\ Disturbs(s)
    /\ UNCHANGED <<publishedRelease, hostPreparation, binary, workflow, text>>

(* The host kills the script, or an earlier command of it fails.           *)
Dies(s) ==
    /\ Running(s)
    /\ ScriptBecomes(s, [At(s, "killed") EXCEPT !.file = NoFile])
    /\ UNCHANGED <<binary, workflow, workflowStaged, text>>

----------------------------------------------------------------------------
PublishRelease ==
    /\ publishedRelease < MaxRelease
    /\ publishedRelease' = publishedRelease + 1
    /\ UNCHANGED <<binary, workflow, workflowStaged, text, script, hostPreparation, disturbed>>

(* A build made by hand carries a version, and may be installed at any     *)
(* moment.                                                                 *)
HandBuild(n) ==
    /\ binary' = Version(n, TRUE)
    /\ Disturbs(NoFile)
    /\ UNCHANGED <<publishedRelease, workflow, workflowStaged, text, script, hostPreparation>>

ScriptStep(s) ==
    \/ Look(s) \/ AskLatest(s) \/ Decide(s) \/ Download(s) \/ CheckDownload(s) \/ Install(s)
    \/ CheckFloor(s) \/ Stage(s) \/ Write(s) \/ MoveWorkflow(s) \/ WorkflowError(s)

ProvisionNext ==
    \/ \E s \in Scripts : provisionSession(s) \/ Return(s) \/ ScriptStep(s) \/ Dies(s)
    \/ PublishRelease
    \/ \E n \in 1 .. MaxRelease : HandBuild(n)

ProvisionSpec == ProvisionInit /\ [][ProvisionNext]_provisionVars

----------------------------------------------------------------------------
(* The types of the state.  The binary a job execs is never a partial      *)
(* download, whichever scripts overlap and wherever one of them dies.      *)
ProvisionTypeOK ==
    /\ publishedRelease \in 0 .. MaxRelease
    /\ binary \in Versions \ {Partial}
    /\ {workflow, workflowStaged, hostPreparation} \subseteq Scripts \cup {NoFile}
    /\ text \in [Scripts -> [of : Scripts \cup {NoFile}, whole : BOOLEAN]]
    /\ script \in [Scripts -> [at : {"none", "look", "latest", "decide", "download", "check", "install", "floor",
                                     "stage", "write", "move", "complete", "error", "killed"},
                               installed : Versions, latest : 0 .. MaxRelease, download : Versions,
                               file : Scripts \cup {NoFile}]]
    /\ disturbed \subseteq Scripts

Older(v, w) == v.release < w.release \/ (v.release = w.release /\ v.build /\ ~w.build)

(* A script that completes undisturbed leaves what its session needs: a    *)
(* supported Linkspan, at least as new as the release it saw and as the    *)
(* one it found, and its own document, whole.                              *)
UndisturbedProvision ==
    \A s \in Scripts :
        script[s].at = "complete" /\ s \notin disturbed =>
            /\ Supported(binary)
            /\ binary.release >= script[s].latest
            /\ ~Older(binary, script[s].installed)
            /\ workflow # NoFile /\ text[workflow] = [of |-> s, whole |-> TRUE]
=============================================================================
