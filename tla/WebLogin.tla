----------------------------- MODULE WebLogin -----------------------------
(***************************************************************************)
(* `up login` in the browser: the command waits for the code on a channel  *)
(* of one place, which the handler of the page the browser is sent to      *)
(* fills; each handler then waits on a second channel of one place for     *)
(* where to send the browser.  The command ends once its server is shut    *)
(* down, which waits for the handlers.                                     *)
(***************************************************************************)
EXTENDS Naturals, Sequences, FiniteSets

CONSTANTS Tabs   \* bound: requests that reach the local server

ASSUME TabsAreFinite == IsFiniteSet(Tabs)

VARIABLES
    login,      \* the command: its step and the code it has
    tabs,       \* [Tabs -> the step of the handler]
    token,      \* the channel of codes
    redirect    \* the channel of answers

webLoginVars == <<login, tabs, token, redirect>>

Handled == {t \in Tabs : tabs[t] # "none"}
Hanging == {t \in Tabs : tabs[t] \in {"sending", "waiting"}}

WebLoginInit ==
    /\ login = [step |-> "started", code |-> "none", browser |-> FALSE]
    /\ tabs = [t \in Tabs |-> "none"]
    /\ token = <<>> /\ redirect = <<>>

\* Without a browser the user reads the code elsewhere and types it in; then
\* no browser knows the port.
OpenBrowser ==
    /\ login.step = "started"
    /\ \/ login' = [login EXCEPT !.step = "waiting", !.browser = TRUE] /\ UNCHANGED token
       \/ login' = [login EXCEPT !.step = "waiting"] /\ token' = <<"code">>
       \/ login' = [login EXCEPT !.step = "ended"] /\ UNCHANGED token
    /\ UNCHANGED <<tabs, redirect>>

\* A request with or without a code; the server listens until it is shut down.
GetResponse(t) ==
    /\ login.browser /\ login.step \in {"waiting", "exchanging"} /\ tabs[t] = "none"
    /\ tabs' = [tabs EXCEPT ![t] = "sending"]
    /\ UNCHANGED <<login, token, redirect>>

SendToken(t) ==
    /\ tabs[t] = "sending" /\ token = <<>>
    /\ token' \in {<<"code">>, <<"">>}
    /\ tabs' = [tabs EXCEPT ![t] = "waiting"]
    /\ UNCHANGED <<login, redirect>>

Receive ==
    /\ login.step = "waiting" /\ token # <<>>
    /\ login' = [login EXCEPT !.step = "exchanging", !.code = Head(token)]
    /\ token' = <<>>
    /\ UNCHANGED <<tabs, redirect>>

\* Five minutes without a code.
GiveUp ==
    /\ login.step = "waiting" /\ login.browser
    /\ login' = [login EXCEPT !.step = "exchanging", !.code = ""]
    /\ UNCHANGED <<tabs, token, redirect>>

ExchangeAnsweringSuccess == \* Mutant: the handlers of a failed login are not answered
    /\ login.step = "exchanging"
    /\ \/ /\ login' = [login EXCEPT !.step = "closing"] /\ UNCHANGED redirect
       \/ /\ login.code # ""
          /\ login' = [login EXCEPT !.step = "closing"] /\ redirect' = Append(redirect, "logged in")
    /\ UNCHANGED <<tabs, token>>

\* The code is exchanged for a session; the browser is told how that went.
Exchange ==
    /\ login.step = "exchanging"
    /\ login' = [login EXCEPT !.step = "closing"]
    /\ \/ redirect' = Append(redirect, "failed")
       \/ login.code # "" /\ redirect' = Append(redirect, "logged in")
    /\ UNCHANGED <<tabs, token>>

Answer(t) ==
    /\ tabs[t] = "waiting" /\ redirect # <<>>
    /\ tabs' = [tabs EXCEPT ![t] = Head(redirect)]
    /\ redirect' = Tail(redirect)
    /\ UNCHANGED <<login, token>>

ShutdownServer ==
    /\ login.step = "closing" /\ Hanging = {}
    /\ login' = [login EXCEPT !.step = "ended"]
    /\ UNCHANGED <<tabs, token, redirect>>

WebLoginNext ==
    \/ OpenBrowser \/ Receive \/ GiveUp \/ Exchange \/ ShutdownServer
    \/ \E t \in Tabs : GetResponse(t) \/ SendToken(t) \/ Answer(t)

WebLoginSpec == WebLoginInit /\ [][WebLoginNext]_webLoginVars
-----------------------------------------------------------------------------
(* However code, timeout and failure meet, a command whose server was      *)
(* asked once can be shut down: the handler that is left is about to get   *)
(* an answer, and no other one can take it (login.go, Run).  A second      *)
(* request waits for ever, and the command with it.                        *)
LoginCanEnd ==
    login.step = "closing" /\ Cardinality(Handled) <= 1 =>
        \A t \in Hanging : redirect # <<>> /\ (tabs[t] = "sending" => token = <<>>)
=============================================================================
