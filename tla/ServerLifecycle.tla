-------------------------- MODULE ServerLifecycle --------------------------
(***************************************************************************)
(* RunServer (transport/http/server/server.go), called by the Run of a     *)
(* router: it starts the listener in a goroutine and waits until that      *)
(* reports an error or the service's context ends, and then shuts the      *)
(* http.Server down.  The requests it lets in are those of ShadowProxy.    *)
(*                                                                         *)
(* http.Server is external: Shutdown stops the listener at once, which     *)
(* makes ListenAndServe return, and then waits for running handlers, or    *)
(* for the end of the context it was given.  With use_h2c the handler that *)
(* it knows is h2c's, which takes connections over from the http.Server:   *)
(* Shutdown neither closes nor waits for those, and requests go on to come *)
(* in on them until the process ends.                                      *)
(***************************************************************************)
EXTENDS ShadowProxy

VARIABLES MaxShutdownDuration, \* 0, or 1 for any other
          tls,                 \* the key pairs, "nil" for no TLS
          UseH2C,
          service,             \* the context of the router
          server,              \* where RunServer is
          listener,            \* the goroutine of ListenAndServe
          shutdown,            \* the context given to Shutdown
          err,                 \* what RunServer returned
          hijacked,            \* is there a connection that h2c took over?
          via                  \* what serves each request

conf == <<MaxShutdownDuration, tls, UseH2C>>
serverVars == <<service, server, listener, shutdown, err, hijacked, via>>
vars == <<backends, requestVars, conf, serverVars>>

\* Without a section, or if that is disabled, there is no TLS.
ParseTLSConfig(section) == IF section \in {"absent", "disabled"} THEN "nil" ELSE section

Init == /\ InitRequests
        /\ MaxShutdownDuration \in {0, 1}
        /\ \E section \in {"absent", "disabled", "good", "bad"} : tls = ParseTLSConfig(section)
        /\ UseH2C \in BOOLEAN
        /\ service = "live"
        /\ server = "start"
        /\ listener = "none"
        /\ shutdown = "none"
        /\ err = "none"
        /\ hijacked = FALSE
        /\ via = [r \in Request |-> "server"]

Serves(from, to) == /\ server = from
                    /\ server' = to
                    /\ UNCHANGED <<backends, requestVars, conf, service, hijacked, via>>

\* A key pair that is missing or cannot be loaded.
ConfigFails == /\ tls = "bad"
               /\ Serves("start", "returned")
               /\ err' = "config"
               /\ UNCHANGED <<listener, shutdown>>

StartListener == /\ tls # "bad"
                 /\ Serves("start", "select")
                 /\ listener' = "serving"
                 /\ UNCHANGED <<shutdown, err>>

\* case err := <-done: the channel has no buffer, so the goroutine ends.
ListenerReports == /\ listener = "sending"
                   /\ Serves("select", "returned")
                   /\ listener' = "ended"
                   /\ err' = "listen"
                   /\ UNCHANGED shutdown

\* Mutated form of BeginShutdown: the context that ended is passed on.
BeginShutdownLate == /\ service = "done"
                     /\ Serves("select", "shutdown")
                     /\ shutdown' = "done"
                     /\ UNCHANGED <<listener, err>>

\* case <-ctx.Done(): a context of its own, without end for no duration.
BeginShutdown == /\ service = "done"
                 /\ Serves("select", "shutdown")
                 /\ shutdown' = IF MaxShutdownDuration = 0 THEN "background" ELSE "live"
                 /\ UNCHANGED <<listener, err>>

\* No connection is active, of those that are still the server's.
Drained == /\ \A r \in Request : via[r] = "server" => ~Running(r)
           /\ Serves("shutdown", "returned")
           /\ UNCHANGED <<listener, shutdown, err>>

ShutdownExpires == /\ shutdown = "done"
                   /\ Serves("shutdown", "returned")
                   /\ err' = "deadline"
                   /\ UNCHANGED <<listener, shutdown>>

---------------------------------------------------------------------------

\* External: the listener fails, or stops because Shutdown was called; its
\* goroutine then stands at done <- err.
ListenerStops == /\ listener = "serving"
                 /\ listener' = "sending"
                 /\ UNCHANGED <<backends, requestVars, conf, service, server, shutdown, err, hijacked, via>>

ServiceDone == /\ service = "live"
               /\ service' = "done"
               /\ UNCHANGED <<backends, requestVars, conf, server, listener, shutdown, err, hijacked, via>>

ShutdownTimer == /\ shutdown = "live"
                 /\ shutdown' = "done"
                 /\ UNCHANGED <<backends, requestVars, conf, service, server, listener, err, hijacked, via>>

\* The first thing Shutdown does is to stop the listener from accepting.
Accept(r) == /\ listener = "serving" /\ server = "select"
             /\ Arrive(r)
             /\ UNCHANGED <<conf, serverVars>>

\* NewServerWithLogger wraps the handler in h2c.NewHandler.
Hijack == /\ UseH2C /\ ~hijacked
          /\ listener = "serving" /\ server = "select"
          /\ hijacked' = TRUE
          /\ UNCHANGED <<backends, requestVars, conf, service, server, listener, shutdown, err, via>>

AcceptH2C(r) == /\ hijacked
                /\ Arrive(r)
                /\ via' = [via EXCEPT ![r] = "h2c"]
                /\ UNCHANGED <<conf, service, server, listener, shutdown, err, hijacked>>

Requests == \E r \in Request : /\ CtxDone(r) \/ Handler(r) \/ Shadow(r)
                               /\ UNCHANGED <<conf, serverVars>>

RunServer == \/ ConfigFails \/ StartListener \/ ListenerReports
             \/ BeginShutdown \/ Drained \/ ShutdownExpires

\* After a shutdown nobody receives from done.
Terminated == /\ server = "returned" /\ listener # "serving"
              /\ \A r \in Request : ~Running(r) /\ ~ShadowRuns(r)
              /\ UNCHANGED vars

Next == \/ RunServer \/ ListenerStops \/ ServiceDone \/ ShutdownTimer
        \/ Hijack \/ (\E r \in Request : Accept(r) \/ AcceptH2C(r)) \/ Requests
        \/ Terminated

\* The context of a service may never end, and its listener never fail; once
\* Shutdown was called the listener stops.
Fairness == /\ WF_vars(RunServer)
            /\ WF_vars(server \in {"shutdown", "returned"} /\ ListenerStops)
            /\ WF_vars(ShutdownTimer)
            /\ \A r \in Request : RequestFairness(r)

Spec == Init /\ [][Next]_vars /\ Fairness

---------------------------------------------------------------------------

TypeOK == /\ MaxShutdownDuration \in {0, 1} /\ tls \in {"nil", "good", "bad"} /\ UseH2C \in BOOLEAN
          /\ backends \in Seq(Backend)
          /\ at \in [Request -> {"idle", "proxy", "call", "done"}]
          /\ shadow \in [Request -> {"none", "starting", "running", "ended"}]
          /\ calls \in [Request -> [DOMAIN backends -> {"none", "open", "skipped", "heard", "cut"}]]
          /\ done \in [Request -> SUBSET Context]
          /\ since \in [Request -> [Context -> Nat]]
          /\ lived \in [Request -> Nat]
          /\ service \in {"live", "done"}
          /\ server \in {"start", "select", "shutdown", "returned"}
          /\ listener \in {"none", "serving", "sending", "ended"}
          /\ shutdown \in {"none", "background", "live", "done"}
          /\ err \in {"none", "config", "listen", "deadline"}
          /\ hijacked \in BOOLEAN
          /\ via \in [Request -> {"server", "h2c"}]

\* A request that was accepted, even while the context ended, is still being
\* served after RunServer returned (server.go:149-159) only if the configured
\* duration was over, if the listener failed by itself, or if it came on a
\* connection that h2c took over (server.go:169-171).
GracefulShutdown ==
  server = "returned" => \A r \in Request : Running(r) =>
    \/ err = "deadline" /\ MaxShutdownDuration # 0
    \/ err = "listen"
    \/ UseH2C /\ via[r] = "h2c"

\* "MaxShutdownDuration is the maximum duration to wait for the graceful
\* shutdown of the service. If 0, it will wait indefinitely until all the
\* requests are served" (config.go:192-194): no request is being served when
\* Shutdown returns without a deadline.  With use_h2c it does not hold.
AllServedAtShutdown ==
  [][server = "shutdown" /\ server' = "returned" /\ MaxShutdownDuration = 0 =>
       \A r \in Request : ~Running(r)]_vars

\* Once the service's context ends or its listener fails, RunServer returns,
\* each request gets its reply and each shadow ends, whatever the backends do
\* (server.go:149-159, shadow.go:118-121): no wait is for something that is
\* itself only ended by the process.
EverythingEnds ==
  service = "done" \/ listener = "sending" ~>
    /\ server = "returned"
    /\ \A r \in Request : ~Running(r) /\ ~ShadowRuns(r)

=============================================================================
