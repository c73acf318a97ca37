----------------------------- MODULE Containers -----------------------------
(***************************************************************************)
(* The container that the commands of a user's agents run in               *)
(* (containers.py): threads of the pool, one for each command, look for    *)
(* it, start it or make it, and run their command there.  Every call of    *)
(* podman is a step of its own, and may fail.  What a command does to the  *)
(* files is in Workspace.                                                  *)
(***************************************************************************)

CONSTANT Threads    \* of the pool, with a command each

VARIABLES
    ready,      \* ContainerManager._ready: it has the user
    box,        \* podman: the user's container
    commands,   \* where each thread is in exec_command
    up,         \* the server runs
    untouched   \* history: podman did as told since the server began, and nobody else

vars == <<ready, box, commands, up, untouched>>

Boxes == {"none", "stopped", "running"}

\* A thread is about to look for the container, to start or make it, to start
\* what it made, or to run its command there.
Steps == {"none", "inspect", "start", "create", "launch", "exec"}

TypeOK ==
    /\ ready \in BOOLEAN /\ up \in BOOLEAN /\ untouched \in BOOLEAN
    /\ box \in Boxes
    /\ commands \in [Threads -> Steps]

NoCommands == [t \in Threads |-> "none"]

Init ==
    /\ ready = FALSE /\ up = TRUE /\ untouched = TRUE
    /\ box \in Boxes
    /\ commands = NoCommands

Goes(t, step) == commands' = [commands EXCEPT ![t] = step]

\* exec_command: the container is not looked for again once it was there.
ShellExec(t) ==
    /\ up
    /\ commands[t] = "none"
    /\ Goes(t, IF ready THEN "exec" ELSE "inspect")
    /\ UNCHANGED <<ready, box, up, untouched>>

\* (a container that is stopped is good enough)
InspectExists(t) ==
    /\ commands[t] = "inspect"
    /\ Goes(t, IF box = "none" THEN "create" ELSE "exec")
    /\ ready' = (ready \/ box # "none")
    /\ UNCHANGED <<box, up, untouched>>

\* (what podman prints is taken for what is to be done)
InspectFormat(t) ==
    /\ commands[t] = "inspect"
    /\ Goes(t, IF box = "running" THEN "exec" ELSE box)
    /\ ready' = (ready \/ box = "running")
    /\ UNCHANGED <<box, up, untouched>>

Inspect(t) ==
    /\ commands[t] = "inspect"
    /\ Goes(t, CASE box = "none" -> "create"
                 [] box = "stopped" -> "start"
                 [] box = "running" -> "exec")
    /\ ready' = (ready \/ box = "running")
    /\ UNCHANGED <<box, up, untouched>>

\* The exit status of podman start is not looked at.
StartBox(t) ==
    /\ commands[t] = "start"
    /\ box' \in IF box = "none" THEN {"none"} ELSE {box, "running"}
    /\ ready' = TRUE
    /\ untouched' = (untouched /\ box' = "running")
    /\ Goes(t, "exec")
    /\ UNCHANGED up

\* podman run makes the container and then starts it.
CreateBox(t) ==
    /\ commands[t] = "create"
    /\ box = "none"
    /\ box' = "stopped"
    /\ Goes(t, "launch")
    /\ UNCHANGED <<ready, up, untouched>>

CreatedRuns(t) ==
    /\ commands[t] = "launch"
    /\ box # "none"
    /\ box' = "running"
    /\ ready' = TRUE
    /\ Goes(t, "exec")
    /\ UNCHANGED <<up, untouched>>

\* Inspecting, starting or making it takes too long or fails, for the name is
\* another thread's: the tool's call fails.
NoBox(t) ==
    /\ commands[t] \in {"inspect", "start", "create", "launch"}
    /\ Goes(t, "none")
    /\ UNCHANGED <<ready, box, up, untouched>>

\* It ran, or took too long, or there was nothing to run it in.
Executed(t) ==
    /\ commands[t] = "exec"
    /\ Goes(t, "none")
    /\ UNCHANGED <<ready, box, up, untouched>>

\* Somebody else stops or removes it.
BoxGoes(to) ==
    /\ box # "none" /\ box # to
    /\ box' = to
    /\ untouched' = FALSE
    /\ UNCHANGED <<ready, commands, up>>

Told(step) == {t \in Threads : commands[t] = step}

\* The process is gone, after its stop or in a crash; podman may still do what
\* it was told.
Exit ==
    /\ up
    /\ up' = FALSE
    /\ ready' = FALSE
    /\ commands' = NoCommands
    /\ box' \in {box} \cup
          (IF box # "none" /\ Told("start") \cup Told("launch") # {}
             THEN {"running"} ELSE {}) \cup
          (IF box = "none" /\ Told("create") # {} THEN {"stopped", "running"} ELSE {})
    /\ UNCHANGED untouched

Start ==
    /\ ~up
    /\ up' = TRUE
    /\ untouched' = TRUE
    /\ UNCHANGED <<ready, box, commands>>

Next ==
    \/ \E t \in Threads :
          \/ ShellExec(t) \/ Inspect(t) \/ StartBox(t) \/ CreateBox(t) \/ CreatedRuns(t)
          \/ NoBox(t) \/ Executed(t)
    \/ \E to \in {"none", "stopped"} : BoxGoes(to)
    \/ Exit \/ Start

Spec == Init /\ [][Next]_vars

-----------------------------------------------------------------------------
\* Properties.

\* However many threads look for the container, start and make it at a time: as
\* long as nobody else touches it and podman does as it is told, the container
\* runs once the manager takes it for ready, and whenever a command is sent there.
ReadyBoxRuns ==
    untouched /\ (ready \/ \E t \in Threads : commands[t] = "exec") => box = "running"
=============================================================================
