----------------------------- MODULE DesktopTor -----------------------------
(***************************************************************************)
(* Tor on the Electron desktop (electron/tor-manager.ts, electron/main.ts, *)
(* and the switch in client/screens/SettingsScreen.tsx and                 *)
(* OnboardingScreen.tsx).                                                  *)
(*                                                                         *)
(* The main process starts and stops a Tor process and sets the proxy; the *)
(* window asks for it and keeps in its settings what it believes.  Between *)
(* the two are calls that wait for a port, a process and the proxy, and    *)
(* events that the process causes at any time.  Nothing keeps the user     *)
(* from the next call before the last has ended, and window, main process  *)
(* and Tor may end separately.  In the window updateTorSettings is one     *)
(* step: its storage is localStorage there, which answers at once.         *)
(***************************************************************************)
EXTENDS Naturals, Sequences, FiniteSets

CONSTANTS
  MaxCalls,     \* bound: how many calls of tor:enable and tor:disable are made
  MaxRestarts,  \* bound: how often the app or its window ends
  System        \* a Tor that is there without the app, or whatever listens on the port

ASSUME DesktopTorAssumption ==
  /\ MaxCalls \in Nat /\ MaxRestarts \in Nat
  /\ System \notin Nat

\* Process i is the one that call i has started; there is no process 0.
NoProc == 0

VARIABLES
  binary,      \* getTorBinaryPath finds a Tor to start
  proxy,       \* the proxy of the session: "direct" or "tor"
  torEnabled,  \* torEnabled of the main process
  torProcess,  \* its torProcess
  full,        \* its bootstrapProgress is 100
  call,        \* call[i]: what call i is for, where it is and which screen awaits it; and its
               \* process, "none", "running", "killed" (told to end) or "gone", and whether that
               \* has said that it is ready
  waiting,     \* the calls that await setProxy, in the order they made it
  port,        \* who listens on the SOCKS port, NoProc if nobody
  settings,    \* the stored torSettings: enabled and connectionStatus
  onboarded,
  listening,   \* the settings screen listens to tor:status-update
  restarts,
  clean,       \* history: the last call began alone, and the settings were not cleared since
  heard,       \* history: a call was made since the app was started, and the window that made
               \* the calls was there for the answers
  crossed      \* history: processes that were there beside another one, or without the app

mainVars == <<proxy, torEnabled, torProcess, full, waiting>>
torVars == <<binary, port, crossed>>
windowVars == <<settings, onboarded, listening>>
desktopVars == <<mainVars, torVars, windowVars, call, restarts, clean, heard>>

Off == [enabled |-> FALSE, status |-> "disconnected"]

DesktopInit ==
  /\ binary \in BOOLEAN
  /\ proxy = "direct" /\ torEnabled = FALSE /\ torProcess = NoProc /\ full = FALSE
  /\ waiting = <<>>
  /\ call = <<>>
  /\ port \in {NoProc, System}
  /\ settings = Off /\ onboarded = FALSE /\ listening = FALSE
  /\ restarts = 0
  /\ clean = TRUE /\ heard = FALSE /\ crossed = {}

\* The main process is busy with call i.
Pending(i) == call[i].pc \in {"check", "download", "boot", "proxy"}
Quiet == \A i \in DOMAIN call : call[i].pc \in {"done", "past"}

Alive(p) == call[p].proc \in {"running", "killed"}

At(i, pc) == [call EXCEPT ![i].pc = pc]

-----------------------------------------------------------------------------
(* The window                                                              *)

Begin(kind, pc, screen) ==
  /\ Len(call) < MaxCalls
  /\ call' = Append(call, [kind |-> kind, pc |-> pc, screen |-> screen, proc |-> "none",
                           said |-> FALSE])
  /\ clean' = \A j \in DOMAIN call : ~Pending(j)
  /\ heard' = TRUE

\* handleTorToggle(true), by the switch or by "Reconnect", up to its call.
ToggleOn ==
  /\ onboarded
  /\ ~settings.enabled \/ settings.status = "error"
  /\ Begin("enable", "check", "settings")
  /\ settings' = [enabled |-> TRUE, status |-> "connecting"]
  /\ listening' = TRUE
  /\ UNCHANGED <<mainVars, torVars, onboarded, restarts>>

\* handleTorToggle(false); the handler of tor:disable calls setProxy at once.
ToggleOff ==
  /\ onboarded
  /\ settings.enabled
  /\ Begin("disable", "proxy", "settings")
  /\ settings' = Off
  /\ proxy' = "direct"
  /\ waiting' = Append(waiting, Len(call'))
  /\ UNCHANGED <<torEnabled, torProcess, full, torVars, onboarded, listening, restarts>>

\* handleFinish of the onboarding, with Tor chosen; the button waits for the call.
FinishWithTor ==
  /\ ~onboarded
  /\ \A j \in DOMAIN call : call[j].screen = "onboarding" => call[j].pc \in {"done", "past"}
  /\ Begin("enable", "check", "onboarding")
  /\ settings' = [enabled |-> TRUE, status |-> "connecting"]
  /\ UNCHANGED <<mainVars, torVars, onboarded, listening, restarts>>

\* doFinish(false): what was stored stays.
FinishWithout ==
  /\ ~onboarded
  /\ \A j \in DOMAIN call : call[j].screen = "onboarding" => call[j].pc \in {"done", "past"}
  /\ onboarded' = TRUE
  /\ UNCHANGED <<mainVars, torVars, settings, listening, call, restarts, clean, heard>>

\* The answer reaches the screen that asked, which stops all listening.  tor:verify does not use
\* the proxy, so that only a machine that is all on Tor passes it.
Answer(i) ==
  /\ call[i].pc \in {"ok", "failed"}
  /\ call' = At(i, "done")
  /\ listening' = IF call[i].kind = "enable" THEN FALSE ELSE listening
  /\ settings' = IF call[i].screen = "settings" /\ call[i].pc = "failed"
                 THEN [settings EXCEPT !.status = "error"] ELSE settings
  /\ UNCHANGED <<mainVars, torVars, onboarded, restarts, clean, heard>>

OnboardingVerified(i) ==
  /\ call[i].pc = "ok" /\ call[i].screen = "onboarding"
  /\ call' = At(i, "done")
  /\ listening' = FALSE
  /\ settings' = [settings EXCEPT !.status = "connected"]
  /\ onboarded' = TRUE
  /\ UNCHANGED <<mainVars, torVars, restarts, clean, heard>>

\* emit: the listener of the settings screen stores what the stage says.
Told(stage) ==
  settings' = IF ~listening THEN settings
              ELSE [settings EXCEPT !.status = IF stage = "ready" THEN "connected" ELSE "error"]

-----------------------------------------------------------------------------
(* tor:enable                                                              *)

\* The end of startTor in the handler: setProxy is called.
AwaitProxy(i) ==
  /\ proxy' = "tor"
  /\ waiting' = Append(waiting, i)

\* isTorPortOpen: somebody listens, so there is nothing to start.
PortOpen(i) ==
  /\ call[i].pc = "check" /\ port # NoProc
  /\ call' = At(i, "proxy")
  /\ AwaitProxy(i)
  /\ Told("ready")
  /\ UNCHANGED <<torEnabled, torProcess, full, torVars, onboarded, listening, restarts, clean,
                 heard>>

\* Nobody does: a process is started.
Spawn(i) ==
  /\ call[i].pc = "check" /\ port = NoProc /\ binary
  /\ call' = [call EXCEPT ![i].pc = "boot", ![i].proc = "running"]
  /\ torProcess' = i
  /\ full' = FALSE
  /\ LET beside == {q \in DOMAIN call : Alive(q)}
     IN crossed' = IF beside = {} THEN crossed ELSE crossed \cup beside \cup {i}
  /\ UNCHANGED <<proxy, torEnabled, waiting, binary, port, windowVars, restarts, clean, heard>>

\* There is no Tor to start: it is downloaded, to where getTorBinaryPath does not look.
Download(i) ==
  /\ call[i].pc = "check" /\ port = NoProc /\ ~binary
  /\ call' = At(i, "download")
  /\ UNCHANGED <<mainVars, torVars, windowVars, restarts, clean, heard>>

DownloadEnds(i) ==
  /\ call[i].pc = "download"
  /\ call' = At(i, "failed")
  /\ UNCHANGED <<mainVars, torVars, windowVars, restarts, clean, heard>>

\* The process cannot be started: "error", and nothing follows it.
SpawnError(i) ==
  /\ call[i].pc = "boot" /\ call[i].proc = "running" /\ port # i
  /\ call' = [call EXCEPT ![i].pc = "failed", ![i].proc = "gone"]
  /\ Told("error")
  /\ UNCHANGED <<mainVars, torVars, onboarded, listening, restarts, clean, heard>>

\* "Bootstrapped n%", below 100, of process i, whatever has become of its call.
Bootstrapping(i) ==
  /\ Alive(i) /\ port = i
  /\ ~call[i].said /\ call[i].pc # "past"
  /\ full' = FALSE
  /\ UNCHANGED <<proxy, torEnabled, torProcess, waiting, torVars, windowVars, call, restarts, clean,
                 heard>>

\* "Bootstrapped 100%": on its standard output, or on its error output, where it is not counted.
Bootstrapped(i) ==
  /\ Alive(i) /\ port = i
  /\ ~call[i].said /\ call[i].pc # "past"
  /\ full' \in {full, TRUE}
  /\ Told("ready")
  /\ IF call[i].pc = "boot"
     THEN /\ call' = [call EXCEPT ![i].said = TRUE, ![i].pc = "proxy"]
          /\ AwaitProxy(i)
     ELSE /\ call' = [call EXCEPT ![i].said = TRUE]
          /\ UNCHANGED <<proxy, waiting>>
  /\ UNCHANGED <<torEnabled, torProcess, torVars, onboarded, listening, restarts, clean, heard>>

\* (faulty: kills the process and leaves the call to its exit)
TimeoutKills(i) ==
  /\ call[i].pc = "boot"
  /\ call' = [call EXCEPT ![i].proc = IF @ = "running" THEN "killed" ELSE @]
  /\ UNCHANGED <<mainVars, torVars, windowVars, restarts, clean, heard>>

\* The timer of BOOTSTRAP_TIMEOUT_MS.
Timeout(i) ==
  /\ call[i].pc = "boot"
  /\ call' = [call EXCEPT ![i].pc = "failed", ![i].proc = IF @ = "running" THEN "killed" ELSE @]
  /\ UNCHANGED <<mainVars, torVars, windowVars, restarts, clean, heard>>

-----------------------------------------------------------------------------
(* The Tor processes                                                       *)

\* A process takes the port.
Bind(p) ==
  /\ Alive(p) /\ port = NoProc
  /\ port' = p
  /\ UNCHANGED <<mainVars, binary, crossed, windowVars, call, restarts, clean, heard>>

\* A process ends: told to, in vain for the port, or by itself.  The app that started it, if it
\* still runs, takes it for the current one.  Only an unsuccessful end before the current process
\* is ready ends the call.
Exit(p, success) ==
  /\ Alive(p)
  /\ port' = IF port = p THEN NoProc ELSE port
  /\ torProcess' = IF call[p].pc = "past" THEN torProcess ELSE NoProc
  /\ LET fails == ~success /\ ~full /\ call[p].pc # "past"
     IN  /\ call' = [call EXCEPT ![p].proc = "gone",
                                 ![p].pc = IF fails /\ @ = "boot" THEN "failed" ELSE @]
         /\ IF fails THEN Told("error") ELSE UNCHANGED settings
  /\ UNCHANGED <<proxy, torEnabled, full, waiting, binary, crossed, onboarded, listening, restarts,
                 clean, heard>>

\* Another Tor on the machine starts or stops.
SystemTor ==
  /\ port \in {NoProc, System}
  /\ port' = IF port = System THEN NoProc ELSE System
  /\ UNCHANGED <<mainVars, binary, crossed, windowVars, call, restarts, clean, heard>>

-----------------------------------------------------------------------------
(* The main process                                                        *)

\* (faulty: nothing is killed)
StoppedLives(calls) == calls

\* stopTor
Stopped(calls) == [p \in DOMAIN calls |->
                    IF p = torProcess /\ calls[p].proc = "running"
                    THEN [calls[p] EXCEPT !.proc = "killed"] ELSE calls[p]]

\* (faulty: tor:disable does not clear the flag)
ProxySetStaysOn ==
  /\ waiting # <<>>
  /\ waiting' = Tail(waiting)
  /\ LET i == Head(waiting)
     IN  IF call[i].kind = "enable"
         THEN /\ torEnabled' = TRUE
              /\ call' = At(i, "ok")
              /\ UNCHANGED <<torProcess, full>>
         ELSE /\ call' = Stopped(At(i, "ok")) /\ torProcess' = NoProc /\ full' = FALSE
              /\ UNCHANGED torEnabled
  /\ UNCHANGED <<proxy, torVars, windowVars, restarts, clean, heard>>

\* setProxy has answered; answers come in the order of the calls.
ProxySet ==
  /\ waiting # <<>>
  /\ waiting' = Tail(waiting)
  /\ LET i == Head(waiting)
     IN  IF call[i].kind = "enable"
         THEN /\ torEnabled' = TRUE
              /\ call' = At(i, "ok")
              /\ UNCHANGED <<torProcess, full>>
         ELSE /\ torEnabled' = FALSE
              /\ call' = Stopped(At(i, "ok")) /\ torProcess' = NoProc /\ full' = FALSE
  /\ UNCHANGED <<proxy, torVars, windowVars, restarts, clean, heard>>

\* The window is loaded anew: nobody takes the answers any more.
Unheard == [i \in DOMAIN call |-> [call[i] EXCEPT !.screen = "none",
                                            !.pc = IF @ \in {"ok", "failed"} THEN "done" ELSE @]]

Reload ==
  /\ restarts < MaxRestarts /\ restarts' = restarts + 1
  /\ call' = Unheard
  /\ listening' = FALSE
  /\ heard' = (heard /\ Quiet)
  /\ UNCHANGED <<mainVars, torVars, settings, onboarded, clean>>

\* resetIdentityData: the settings are cleared and the window loaded anew; Tor is not told.
ResetIdentity ==
  /\ restarts < MaxRestarts /\ restarts' = restarts + 1
  /\ onboarded
  /\ call' = Unheard
  /\ settings' = Off /\ onboarded' = FALSE /\ listening' = FALSE
  /\ clean' = FALSE
  /\ UNCHANGED <<mainVars, torVars, heard>>

\* macOS: the last window is closed, which stops Tor, and another one opened.
Reopen ==
  /\ restarts < MaxRestarts /\ restarts' = restarts + 1
  /\ call' = Stopped(Unheard) /\ torProcess' = NoProc /\ full' = FALSE
  /\ listening' = FALSE
  /\ heard' = (heard /\ Quiet)
  /\ UNCHANGED <<proxy, torEnabled, waiting, torVars, settings, onboarded, clean>>

\* The app ends, by itself (orderly) or not, and is started again.
Restart(orderly) ==
  /\ restarts < MaxRestarts /\ restarts' = restarts + 1
  /\ LET left == IF orderly THEN Stopped(call) ELSE call
     IN  /\ call' = [i \in DOMAIN call |-> [left[i] EXCEPT !.pc = "past"]]
         /\ crossed' = crossed \cup {p \in DOMAIN call : left[p].proc = "running"}
  /\ proxy' = "direct" /\ torEnabled' = FALSE /\ torProcess' = NoProc /\ full' = FALSE
  /\ waiting' = <<>>
  /\ listening' = FALSE
  /\ clean' = TRUE /\ heard' = FALSE
  /\ UNCHANGED <<binary, port, settings, onboarded>>

DesktopNext ==
  \/ ToggleOn \/ ToggleOff \/ FinishWithTor
  \/ \E i \in DOMAIN call :
       \/ Answer(i) \/ OnboardingVerified(i)
       \/ PortOpen(i) \/ Download(i) \/ DownloadEnds(i)
       \/ Spawn(i) \/ SpawnError(i) \/ Bootstrapping(i) \/ Bootstrapped(i) \/ Timeout(i) \/ Bind(i)
       \/ \E success \in BOOLEAN : Exit(i, success)
  \/ FinishWithout \/ SystemTor \/ ProxySet
  \/ Reload \/ ResetIdentity \/ Reopen
  \/ \E orderly \in BOOLEAN : Restart(orderly)

DesktopSpec == DesktopInit /\ [][DesktopNext]_desktopVars

\* A look at the port ends after two seconds, the bootstrap timer fires, setProxy answers, and
\* the operating system starts a process that can be started.
FairSpec ==
  /\ DesktopSpec
  /\ \A i \in 1..MaxCalls : /\ WF_desktopVars(i \in DOMAIN call /\ (PortOpen(i) \/ Spawn(i)))
                            /\ WF_desktopVars(i \in DOMAIN call /\ Timeout(i))
  /\ WF_desktopVars(ProxySet)

-----------------------------------------------------------------------------
(* Properties                                                              *)

\* What the user is shown is so.  The main process takes Tor for on only while all traffic goes
\* through the proxy or a later call is just undoing it; the screen shows "connected" only if the
\* main process has it on, and off only if the proxy is gone, once the calls have ended: unless
\* the last one was made while another ran, the window missed an answer, or the app, which enables
\* nothing when it starts, has been started since.
ShownIsSo ==
  /\ torEnabled => \/ proxy = "tor"
                   \/ \E k \in DOMAIN waiting : call[waiting[k]].kind = "disable"
  /\ Quiet /\ clean /\ settings.enabled /\ settings.status = "connected"
       => torEnabled \/ ~heard
  /\ Quiet /\ clean /\ ~settings.enabled => ~torEnabled /\ proxy = "direct"

\* tor:disable and the end of the app find the process to kill: one that nobody has told to end
\* is the one torProcess refers to, unless it was there beside another one.
StopFindsTor == \A p \in DOMAIN call \ crossed : call[p].proc = "running" => torProcess = p

\* Every call to enable Tor returns, however the process and the calls beside it end: the button
\* of the onboarding waits for it.  (A download may take for ever.)
CallsReturn ==
  \A i \in 1..MaxCalls :
    LET busy == i \in DOMAIN call /\ call[i].pc \in {"check", "boot", "proxy"}
    IN  binary /\ busy ~> ~busy
=============================================================================
