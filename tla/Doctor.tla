------------------------------- MODULE Doctor -------------------------------
(***************************************************************************)
(* The maintenance session over a serial line: the device side             *)
(* (doctor/session.h), which is parked in runSession() or runs its app, and  *)
(* the host tool that connects, sends a list of commands per target, each    *)
(* after the READY of the one before, and says whether all of them           *)
(* succeeded.  READY carries no number: an answer is taken for the command   *)
(* that was sent last, whichever it answers.                                 *)
(*                                                                           *)
(* A line is written whole or not at all.  VALIDATE stands for every command  *)
(* that ends in a RESULT line and is not destructive.                        *)
(***************************************************************************)
EXTENDS Integers, Sequences, SequencesExt

CONSTANTS
    Name,           \* names of the targets, each with a base path of its own
    NoName,         \* no target selected
    Rejected,       \* the targets whose TARGET line the device refuses
    Scripts,        \* the command lists a run may have, in the tool's fixed order
    Lists,          \* the target lists a run may have
    MaxRuns,        \* bound: runs of the tool
    MaxDeaths       \* bound: runs killed, or unplugged, half-way

ASSUME DoctorConstants ==
    /\ NoName \notin Name /\ Rejected \subseteq Name
    /\ Scripts \subseteq Seq({"VALIDATE", "FORMAT", "DUMP_FILE", "DUMP_ALL"})
    /\ Lists \subseteq Seq(Name)
    /\ MaxRuns \in Nat /\ MaxDeaths \in Nat

VARIABLES
    firmware,   \* "production", woken by the trigger, or "standalone", reset by DTR
    dev,        \* "app", or in runSession(): "read" in readLine(), "busy" in dispatch()
    target,     \* CurrentTarget
    doing,      \* the line in dispatch()
    rx,         \* lines on their way to the device
    tx,         \* lines on their way to the host
    host,       \* what the tool waits for, "off" when none runs
    todo,       \* the lines it has still to send
    sent,       \* the line it sent last
    heard,      \* what it has heard since: "nothing", "error", "ok" or "bad"
    allOk,      \* all_ok
    runs, deaths,   \* runs started, runs killed
    quiet,      \* observer: the device was idle when the run connected, or was reset
    ran,        \* observer: the commands run since the last Connect, on which target
    asked,      \* observer: the lines of the run
    exit        \* observer: the last run that came to its end

device == <<dev, target, doing>>
tool   == <<host, todo, sent, heard, allOk>>
watch  == <<quiet, ran, asked, exit>>
vars   == <<firmware, device, rx, tx, tool, runs, deaths, watch>>

Line(verb, name, run) == [verb |-> verb, name |-> name, run |-> run]
NoExit == [ok |-> FALSE, quiet |-> FALSE, asked |-> {}]
NoLine == [verb |-> "none", name |-> NoName, run |-> 0]
Say(kind, ok) == [kind |-> kind, ok |-> ok]
Ready == <<Say("READY", TRUE)>>

Slow == {"VALIDATE", "FORMAT", "DUMP_FILE", "DUMP_ALL"}
Dump == {"DUMP_FILE", "DUMP_ALL"}

Init ==
    /\ firmware \in {"production", "standalone"}
    /\ dev = IF firmware = "production" THEN "app" ELSE "read"
    /\ target = NoName /\ doing = NoLine
    /\ rx = <<>> /\ tx = <<>>
    /\ host = "off" /\ todo = <<>> /\ sent = NoLine /\ heard = "nothing" /\ allOk = FALSE
    /\ runs = 0 /\ deaths = 0
    /\ quiet = FALSE /\ ran = {} /\ asked = {}
    /\ exit = NoExit

-----------------------------------------------------------------------------
(* The device.                                                              *)

\* runSession() is entered, or the device boots: nothing of the last session is left.
Park(lines) == /\ dev' = "read" /\ target' = NoName /\ doing' = NoLine
               /\ tx' = lines \o Ready

\* ESP.restart(); the standalone firmware opens a session at once.  What nobody reads
\* is lost.
Restart ==
    /\ rx' = <<>>
    /\ \/ firmware = "standalone" /\ Park(IF host = "off" THEN <<>> ELSE tx)
       \/ /\ firmware = "production"
          /\ dev' = "app" /\ target' = NoName /\ doing' = NoLine /\ UNCHANGED tx

\* The app's poll of the serial line.
AppReads ==
    /\ dev = "app" /\ rx # <<>>
    /\ rx' = Tail(rx)
    /\ IF Head(rx).verb = "TRIGGER" THEN Park(tx) ELSE UNCHANGED <<device, tx>>
    /\ UNCHANGED <<firmware, tool, runs, deaths, watch>>

ReadLine ==
    /\ dev = "read" /\ rx # <<>>
    /\ doing' = Head(rx) /\ rx' = Tail(rx) /\ dev' = "busy"
    /\ UNCHANGED <<firmware, target, tx, tool, runs, deaths, watch>>

Answers(lines) == tx' = tx \o lines \o Ready /\ dev' = "read" /\ doing' = NoLine

\* What a command that is let through may print before READY.  DUMP_FILE prints no
\* DUMP_END, and neither does a DUMP_ALL whose mount fails.
Outputs(verb, ok) ==
    CASE verb \in {"VALIDATE", "FORMAT"} -> {<<Say("RESULT", ok)>>}
      [] verb = "DUMP_ALL" /\ ok         -> {<<Say("DUMP_END", TRUE)>>}
      [] verb = "DUMP_ALL" /\ ~ok        ->
            {<<Say("LIST_ERROR", FALSE)>>} \cup
            {<<Say(kind, FALSE), Say("DUMP_END", FALSE)>> : kind \in {"LIST_ERROR", "FILE_ERROR"}}
      [] verb = "DUMP_FILE" -> {IF ok THEN <<>> ELSE <<Say("FILE_ERROR", FALSE)>>}

\* A target is selected, the verb is known and FORMAT names the target.
LetThrough(line) ==
    /\ target # NoName /\ line.verb \in Slow
    /\ line.verb = "FORMAT" => line.name = target

Dispatch ==
    /\ dev = "busy"
    /\ \/ /\ doing.verb = "DONE"
          /\ Restart /\ UNCHANGED ran
       \/ /\ doing.verb = "TARGET" /\ doing.name \in Rejected
          /\ Answers(<<Say("ERROR", FALSE)>>) /\ UNCHANGED <<target, rx, ran>>
       \/ /\ doing.verb = "TARGET" /\ doing.name \notin Rejected
          /\ target' = doing.name
          /\ Answers(<<>>) /\ UNCHANGED <<rx, ran>>
       \/ /\ LetThrough(doing)
          /\ \E ok \in BOOLEAN :
                /\ \E lines \in Outputs(doing.verb, ok) : Answers(lines)
                /\ ran' = ran \cup {[line |-> doing, on |-> target, ok |-> ok]}
          /\ UNCHANGED <<target, rx>>
       \/ /\ doing.verb \notin {"DONE", "TARGET"} /\ ~LetThrough(doing)
          /\ Answers(<<Say("ERROR", FALSE)>>) /\ UNCHANGED <<target, rx, ran>>
    /\ UNCHANGED <<firmware, tool, runs, deaths, quiet, asked, exit>>

\* Variant: a read that times out counts as activity.
NeverIdle == FALSE
\* No command for kDoctorIdleTimeoutMs, which no run lets pass once it has connected.
Idle == \/ host = "off" /\ rx = <<>>
        \/ host = "probe" /\ rx # <<>>

IdleExit ==
    /\ dev = "read" /\ Idle
    /\ Restart
    /\ UNCHANGED <<firmware, tool, runs, deaths, watch>>

DeviceStep == AppReads \/ ReadLine \/ Dispatch \/ IdleExit

-----------------------------------------------------------------------------
(* The host tool.                                                           *)

\* The lines of a run: per target TARGET and then the commands.
Lines(list, script, run) ==
    FlattenSeq([i \in DOMAIN list |->
        <<Line("TARGET", list[i], run)>> \o [j \in DOMAIN script |-> Line(script[j], list[i], run)]])

\* Variant: what is left of an earlier run stays in the input buffer.
KeepInput == UNCHANGED tx
\* reset_input_buffer().
ResetInput == tx' = <<>>

\* Connect and probe: a parked device answers the unknown verb with READY.
Connect ==
    /\ host = "off" /\ runs < MaxRuns
    /\ runs' = runs + 1
    /\ \E list \in Lists, script \in Scripts : todo' = Lines(list, script, runs')
    /\ asked' = ToSet(todo')
    /\ rx' = Append(rx, Line("PROBE", NoName, runs'))
    /\ ResetInput
    /\ host' = "probe" /\ allOk' = TRUE
    /\ quiet' = (dev # "busy" /\ rx = <<>>)
    /\ ran' = {} /\ exit' = NoExit
    /\ UNCHANGED <<firmware, device, sent, heard, deaths>>

\* No answer to the probe: the trigger, or a reset by DTR.
Wake ==
    /\ host' = "enter"
    /\ \/ /\ firmware = "production"
          /\ rx' = Append(rx, Line("TRIGGER", NoName, runs)) /\ ResetInput
          /\ UNCHANGED <<device, quiet>>
       \/ /\ firmware = "standalone"
          /\ rx' = <<>> /\ Park(<<>>) /\ quiet' = TRUE

\* _send_cmd(), or the bare write of a dump command.
Send ==
    /\ host = "send" /\ todo # <<>>
    /\ rx' = Append(rx, Head(todo))
    /\ sent' = Head(todo) /\ todo' = Tail(todo) /\ heard' = "nothing"
    /\ host' = IF sent'.verb \in Dump THEN "dump" ELSE "answer"
    /\ UNCHANGED <<firmware, device, tx, allOk, runs, deaths, watch>>

\* A RESULT decides; without one, an error line does.
Succeeded == heard \in {"nothing", "ok"}

\* A line is read while the answer to a command is awaited.
HearAnswer ==
    /\ host = "answer"
    /\ \/ /\ Head(tx).kind = "READY"
          /\ host' = "send"
          /\ allOk' = (allOk /\ (sent.verb = "TARGET" \/ Succeeded))
          /\ UNCHANGED heard
       \/ /\ Head(tx).kind = "RESULT"
          /\ heard' = IF Head(tx).ok THEN "ok" ELSE "bad"
          /\ UNCHANGED <<host, allOk>>
       \/ /\ Head(tx).kind \in {"ERROR", "LIST_ERROR", "FILE_ERROR"}
          /\ heard' = IF heard = "nothing" THEN "error" ELSE heard
          /\ UNCHANGED <<host, allOk>>
       \/ /\ Head(tx).kind = "DUMP_END"
          /\ UNCHANGED <<host, allOk, heard>>

\* receive_lines(): only DUMP_END ends a dump, any other line is skipped.
HearDump ==
    /\ host = "dump"
    /\ host' = IF Head(tx).kind = "DUMP_END" THEN "ready" ELSE "dump"
    /\ allOk' = (allOk /\ (Head(tx).kind \in {"LIST_ERROR", "FILE_ERROR", "DUMP_END"} => Head(tx).ok))
    /\ UNCHANGED heard

\* _wait_for_ready(), after the probe, the trigger or a dump.
HearReady ==
    /\ host \in {"probe", "enter", "ready"}
    /\ host' = IF Head(tx).kind = "READY" THEN "send" ELSE host
    /\ UNCHANGED <<allOk, heard>>

Hear ==
    /\ tx # <<>> /\ tx' = Tail(tx)
    /\ HearAnswer \/ HearDump \/ HearReady
    /\ UNCHANGED <<firmware, device, rx, todo, sent, runs, deaths, watch>>

\* Nothing was heard for as long as the tool waits: the device is in its app, at
\* something slow, or has answered all it was asked.
Silent ==
    /\ tx = <<>>
    /\ \/ dev = "app"
       \/ dev = "busy" /\ doing.verb \in Slow
       \/ dev = "read" /\ rx = <<>>

Off == host' = "off" /\ todo' = <<>> /\ sent' = NoLine /\ heard' = "nothing" /\ allOk' = FALSE

TimeOut ==
    /\ Silent
    /\ \/ /\ host = "probe" /\ Wake
          /\ UNCHANGED <<todo, sent, heard, allOk, exit>>
       \/ /\ host = "enter" /\ Off
          /\ exit' = NoExit
          /\ UNCHANGED <<device, rx, tx, quiet>>
       \/ /\ host \in {"answer", "dump", "ready"}
          /\ host' = CASE host = "dump" -> "ready"
                       [] sent.verb = "TARGET" -> "close"
                       [] OTHER -> "send"
          /\ allOk' = FALSE
          /\ UNCHANGED <<device, rx, tx, todo, sent, heard, quiet, exit>>
    /\ UNCHANGED <<firmware, runs, deaths, ran, asked>>

\* DONE is sent whatever came before, and the exit status follows from all_ok.
Close ==
    /\ host = "close" \/ (host = "send" /\ todo = <<>>)
    /\ rx' = Append(rx, Line("DONE", NoName, runs))
    /\ exit' = [ok |-> allOk, quiet |-> quiet, asked |-> asked]
    /\ Off
    /\ UNCHANGED <<firmware, device, tx, runs, deaths, quiet, ran, asked>>

\* The tool is killed or the cable is pulled: no DONE.
Die ==
    /\ host # "off" /\ deaths < MaxDeaths
    /\ deaths' = deaths + 1
    /\ Off
    /\ UNCHANGED <<firmware, device, rx, tx, runs, watch>>

HostStep == Send \/ Hear \/ TimeOut \/ Close

Next == DeviceStep \/ HostStep \/ Connect \/ Die
Spec == Init /\ [][Next]_vars
\* The device and a run that is alive go on; nobody has to start a run.
FairSpec == Spec /\ WF_vars(DeviceStep) /\ WF_vars(HostStep)

-----------------------------------------------------------------------------
Done(line) == \E x \in ran : x.line = line /\ x.on = line.name /\ x.ok
RanAsAsked == \A line \in exit.asked : line.verb # "TARGET" => Done(line)

\* Exit status 0 is true: every command of the run has run, and with success, on the
\* target it was given for, provided that the device was idle when the run connected
\* and knows its targets; late answers, timeouts and what a killed run left behind
\* do not change that (pqueue_doctor.py:464-710, session.h:428-450).
SuccessIsTrue ==
    /\ exit.ok /\ exit.quiet
    /\ \A line \in exit.asked : line.name \notin Rejected
    => RanAsAsked

\* A device in the field always gets back to its app, and the tool to its shell,
\* whoever dies in between (session.h:408-414).
SessionEnds == []<>(host = "off" /\ (firmware = "production" => dev = "app"))

\* doctor.md:110 "Multiple targets are processed in order; each gets its own command
\* run": so do the targets the device refuses.
EachTargetItsOwn == exit.ok /\ exit.quiet => RanAsAsked
=============================================================================
