------------------------------ MODULE Aperture ------------------------------
(***************************************************************************)
(* The life cycle of the aperture process (aperture.go, config.go,         *)
(* proxy.UpdateServices and Close): run reads the configuration, Start     *)
(* brings the parts up one after the other, run waits for a signal or for  *)
(* an error, Stop takes the parts down.  Server and challenger goroutines  *)
(* run beside it and send their errors to the unbuffered errChan.  A       *)
(* crash may hit any step; the files of the self-signed certificate        *)
(* survive it.  A configuration is the set of the options that are set,    *)
(* the database backend and a list of services.  lnd, Tor, the databases   *)
(* and the HTTP servers are external.                                      *)
(*                                                                         *)
(* Operators named *_bug are faulty variants of the definition after them; *)
(* they are no part of the specification.                                  *)
(***************************************************************************)
EXTENDS Naturals

CONSTANTS Configs,   \* configurations
          Lists,     \* lists of services
          BadLists,  \* those that prepareServices or certPool refuse
          MaxBoots   \* bound on the number of starts

ASSUME ApertureAssumption ==
    /\ BadLists \subseteq Lists /\ MaxBoots \in Nat
    /\ \A c \in Configs : c.list \in Lists

VARIABLES cfg,    \* the configuration
          boots,  \* starts of the process so far
          pc,     \* where run, Start and Stop are
          a,      \* the Aperture struct and what it started
          file    \* the certificate and the key on disk

vars == <<cfg, boots, pc, a, file>>

Kinds == {"https", "tor"}
Set(o) == o \in cfg.opts

NoFile == [by |-> "none", n |-> 0]
User == [by |-> "user", n |-> 0]
Self(n) == [by |-> "self", n |-> n]
Files == {NoFile, User} \union {Self(n) : n \in 0..(2 * MaxBoots)}

\* db: the database client; challenger: "deaf" without its invoice stream;
\* server: a goroutine per listener, "failed" if it wants to report an error;
\* open: the listeners Stop has not closed; onion: the onion service is
\* published; cert: the certificate in the TLS configuration; asked: the last
\* list of services accepted; routed: Proxy.services; pricers: the lists whose
\* services refer to an open pricer; lost: the lists with open pricers that
\* their services no longer refer to; updated: UpdateServices was called.
NewAperture ==
    [db |-> "none", challenger |-> "none", hashmail |-> "none",
     server |-> [k \in Kinds |-> "none"], open |-> {}, quit |-> FALSE,
     onion |-> FALSE, cert |-> NoFile,
     asked |-> cfg.list, routed |-> cfg.list,
     pricers |-> {}, lost |-> {}, updated |-> FALSE]

\* The files may be absent, our own, the user's, or a certificate of the user
\* without its key.
Init ==
    /\ cfg \in Configs
    /\ boots = 0 /\ pc = "exited" /\ a = NewAperture
    /\ \/ \E f \in {NoFile, User, Self(0)} : file = [cert |-> f, key |-> f]
       \/ file = [cert |-> User, key |-> NoFile]

At(l) == pc = l
Step(l, m, r) == At(l) /\ pc' = m /\ a' = r /\ UNCHANGED <<cfg, boots, file>>

\* Main exits; nothing outlives the process.
Exit == pc' = "exited" /\ a' = NewAperture /\ UNCHANGED <<cfg, boots, file>>

Boot ==
    /\ At("exited") /\ boots < MaxBoots
    /\ boots' = boots + 1 /\ pc' = "config"
    /\ UNCHANGED <<cfg, a, file>>

(***************************************************************************)
(* run: configuration and logging.                                         *)
(***************************************************************************)
\* AuthConfig.validate, with validateLNDAuth and validateLNCAuth.  getConfig
\* has filled in a mailbox address.
AuthValid ==
    IF Set("lndhost") THEN ~Set("passphrase") /\ Set("tlspath") /\ Set("macdir")
    ELSE Set("passphrase") /\ Set("network")

\* Config.validate.
Valid == (Set("disable") \/ AuthValid) /\ Set("listenaddr") /\ Set("invoicebatchsize")

\* getConfig and setupLogging.
GetConfig == Valid /\ Step("config", "prometheus", a)

\* The configuration is refused, its file is missing or cannot be parsed, or
\* the log file cannot be opened.
GetConfigFails == At("config") /\ Exit

(***************************************************************************)
(* Start.                                                                  *)
(***************************************************************************)
\* Prometheus and the profiler only spawn a server nobody waits for.
StartProfile == ~Set("badprofile") /\ Step("prometheus", "db", a)
StartProfileFails == At("prometheus") /\ Set("badprofile") /\ Exit

OpenDB ==
    /\ cfg.backend \in {"etcd", "postgres", "sqlite"}
    /\ Step("db", "auth", [a EXCEPT !.db = "open"])

OpenDBFails == At("db") /\ Exit

\* A passphrase selects LNC, which keeps its sessions in the database.
StartChallenger ==
    /\ ~Set("disable")
    /\ Set("passphrase") => cfg.backend # "etcd"
    /\ Step("auth", "proxy", [a EXCEPT !.challenger = "running"])

StartChallengerFails == At("auth") /\ ~Set("disable") /\ Exit

NoChallenger == Set("disable") /\ Step("auth", "proxy", a)

\* prepareServices opens a pricer for every service of the list.  A pricer
\* the service already had is overwritten and not closed.
PrepareServices(r, s) ==
    [r EXCEPT !.pricers = @ \union {s},
              !.lost = IF s \in r.pricers THEN @ \union {s} ELSE @]

\* createProxy, with createHashMailServer and proxy.New.
CreateProxy ==
    /\ Set("servestatic") => Set("staticroot")
    /\ cfg.list \notin BadLists
    /\ Step("proxy", "tls", [PrepareServices(a, cfg.list) EXCEPT
                                !.hashmail = IF Set("hashmail") THEN "running" ELSE "none"])

CreateProxyFails == At("proxy") /\ Exit

\* Insecure serves without TLS; autocert fetches its certificates later, from
\* the first request on.
NoOwnCert ==
    /\ Set("insecure") \/ (Set("autocert") /\ Set("servername"))
    /\ Step("tls", "serve", a)

AutocertFails ==
    /\ At("tls") /\ ~Set("insecure") /\ Set("autocert") /\ ~Set("servername")
    /\ Exit

\* Takes a missing key alone as a reason to generate.
HaveFiles_bug == file.cert # NoFile /\ file.key # NoFile

\* getTLSConfig generates only if neither file exists.
HaveFiles == file.cert # NoFile \/ file.key # NoFile

GetTLSConfig ==
    /\ ~Set("insecure") /\ ~Set("autocert")
    /\ Step("tls", IF HaveFiles THEN "load" ELSE "writecert", a)

FileStep(l, m, f) == At(l) /\ pc' = m /\ file' = f /\ UNCHANGED <<cfg, boots, a>>

\* WriteCertPair writes the certificate, then the key, of a new pair.
WriteCert ==
    \/ FileStep("writecert", "writekey", [file EXCEPT !.cert = Self(2 * boots - 1)])
    \/ FileStep("rewritecert", "rewritekey", [file EXCEPT !.cert = Self(2 * boots)])

WriteKey ==
    \/ FileStep("writekey", "load", [file EXCEPT !.key = file.cert])
    \/ FileStep("rewritekey", "reload", [file EXCEPT !.key = file.cert])

\* A key that cannot be written takes the certificate with it.
WriteFails ==
    /\ pc \in {"writecert", "rewritecert", "writekey", "rewritekey"}
    /\ file' = [file EXCEPT !.cert = NoFile]
    /\ pc' = "exited" /\ a' = NewAperture /\ UNCHANGED <<cfg, boots>>

\* LoadCert needs both files, and a key that fits.
Matches == file.cert # NoFile /\ file.key = file.cert

LoadCert == Matches /\ Step("load", "serve", [a EXCEPT !.cert = file.cert])

\* A certificate of our own that is about to expire is renewed.
LoadDue ==
    /\ Matches /\ file.cert.by = "self"
    /\ Step("load", "rmcert", [a EXCEPT !.cert = file.cert])

RemoveCert == FileStep("rmcert", "rmkey", [file EXCEPT !.cert = NoFile])
RemoveKey == FileStep("rmkey", "rewritecert", [file EXCEPT !.key = NoFile])
RemoveFails == pc \in {"rmcert", "rmkey"} /\ Exit

\* Keeps the data of the old certificate.
Reload_bug == Matches /\ Step("reload", "serve", a)

Reload == Matches /\ Step("reload", "serve", [a EXCEPT !.cert = file.cert])

LoadFails == pc \in {"load", "reload"} /\ Exit

Spawn(k) == [a EXCEPT !.server[k] = "serving", !.open = @ \union {k}]

\* Does without the second server.
Serve_bug == Step("serve", "select", Spawn("https"))

\* The goroutine of the HTTPS server.
Serve == Step("serve", IF Set("tor") THEN "tor" ELSE "select", Spawn("https"))

\* initTorListener publishes the onion service.
InitTorListener == Step("tor", "servetor", [a EXCEPT !.onion = TRUE])

\* Start fails and with it the process, the server goroutine included.
InitTorFails == At("tor") /\ Exit

\* The goroutine of the server behind the onion service; then Start returns,
\* and its deferred call stops the Tor controller.
ServeTor == Step("servetor", "select", [Spawn("tor") EXCEPT !.onion = FALSE])

(***************************************************************************)
(* The goroutines, and run waiting for them.                               *)
(***************************************************************************)
\* ListenAndServe returns: the address is taken, the listener fails, or Stop
\* has closed the server.
ServeReturns(k) ==
    /\ a.server[k] = "serving"
    /\ a' = [a EXCEPT !.server[k] = "failed"]
    /\ UNCHANGED <<cfg, boots, pc, file>>

\* Drops the error if nobody waits for it yet.
ReportError_bug(k) ==
    /\ a.server[k] = "failed"
    /\ a' = [a EXCEPT !.server[k] = "done"]
    /\ pc' = IF At("select") THEN "stop" ELSE pc
    /\ UNCHANGED <<cfg, boots, file>>

\* errChan has no buffer: the error waits for run, or for quit.
ReportError(k) ==
    /\ a.server[k] = "failed"
    /\ At("select") \/ a.quit
    /\ a' = [a EXCEPT !.server[k] = "done"]
    /\ pc' = IF At("select") THEN "stop" ELSE pc
    /\ UNCHANGED <<cfg, boots, file>>

\* The invoice stream breaks.  Its reader does not wait for run to take the
\* error: before run waits for one, it is lost.
ChallengerFails ==
    /\ a.challenger = "running"
    /\ a' = [a EXCEPT !.challenger = "deaf"]
    /\ pc' = IF At("select") THEN "stop" ELSE pc
    /\ UNCHANGED <<cfg, boots, file>>

Signal == Step("select", "stop", a)

\* UpdateServices prepares the new list and replaces the reverse proxy; the
\* list that requests are matched with stays as New set it.
UpdateServices(s) ==
    /\ s \notin BadLists
    /\ Step("select", "select", [PrepareServices(a, s) EXCEPT !.asked = s, !.updated = TRUE])

\* prepareServices stops at a service it refuses, after it has prepared those
\* before it, or certPool cannot read a certificate.
UpdateServicesFails(s) ==
    \E r \in {a, PrepareServices(a, s)} :
        Step("select", "select", [r EXCEPT !.updated = TRUE])

(***************************************************************************)
(* Stop.                                                                   *)
(***************************************************************************)
Stopped(s) == IF s = "none" THEN "none" ELSE "stopped"

\* Challenger.Stop waits for the goroutine of the challenger.
StopChallenger == Step("stop", "proxycleanup", [a EXCEPT !.challenger = Stopped(@)])

\* Forgets the HashMail server.
ProxyCleanup_bug == Step("proxycleanup", "closedb", a)

ProxyCleanup == Step("proxycleanup", "closedb", [a EXCEPT !.hashmail = Stopped(@)])

\* etcdClient.Close or db.Close; an error is only logged.
CloseDB == Step("closedb", "cleanup", [a EXCEPT !.db = Stopped(@)])

\* Proxy.Close closes the pricers of the list that is routed, server.Close the
\* listener and the connections.
Cleanup == Step("cleanup", "closetor", [a EXCEPT !.pricers = @ \ {a.routed}, !.open = @ \ {"https"}])

CloseTor == Step("closetor", "closequit", [a EXCEPT !.open = @ \ {"tor"}])

CloseQuit == Step("closequit", "wait", [a EXCEPT !.quit = TRUE])

\* wg.Wait, and run returns.
Wait ==
    /\ \A k \in Kinds : a.server[k] \in {"none", "done"}
    /\ Step("wait", "stopped", a)

MainExits == At("stopped") /\ Exit

Crash == pc # "exited" /\ Exit

Main ==
    \/ GetConfig \/ GetConfigFails \/ StartProfile \/ StartProfileFails
    \/ OpenDB \/ OpenDBFails
    \/ StartChallenger \/ StartChallengerFails \/ NoChallenger
    \/ CreateProxy \/ CreateProxyFails
    \/ NoOwnCert \/ AutocertFails \/ GetTLSConfig
    \/ WriteCert \/ WriteKey \/ WriteFails
    \/ LoadCert \/ LoadDue \/ RemoveCert \/ RemoveKey \/ RemoveFails \/ Reload \/ LoadFails
    \/ Serve \/ InitTorListener \/ InitTorFails \/ ServeTor
    \/ StopChallenger \/ ProxyCleanup \/ CloseDB \/ Cleanup \/ CloseTor \/ CloseQuit
    \/ Wait \/ MainExits

Next ==
    \/ Boot
    \/ Main
    \/ \E k \in Kinds : ServeReturns(k)
    \/ \E k \in Kinds : ReportError(k)
    \/ ChallengerFails
    \/ Signal
    \/ \E s \in Lists : UpdateServices(s)
    \/ \E s \in Lists : UpdateServicesFails(s)
    \/ Crash

Spec == Init /\ [][Next]_vars

\* The main goroutine goes on unless it waits; a server that was closed
\* returns; a goroutine whose error can be received or that sees quit goes on.
Fairness ==
    /\ WF_vars(Main)
    /\ \A k \in Kinds : WF_vars(k \notin a.open /\ ServeReturns(k)) /\ WF_vars(ReportError(k))

FairSpec == Spec /\ Fairness

(***************************************************************************)
(* Properties.                                                             *)
(***************************************************************************)
StopSteps == {"stop", "proxycleanup", "closedb", "cleanup", "closetor", "closequit", "wait", "stopped"}

\* Type correctness, and when Start has returned its servers were started.
TypeOK ==
    /\ cfg \in Configs /\ boots \in 0..MaxBoots
    /\ file \in [cert : Files, key : Files]
    /\ a.db \in {"none", "open", "stopped"}
    /\ a.challenger \in {"none", "running", "deaf", "stopped"}
    /\ a.hashmail \in {"none", "running", "stopped"}
    /\ a.server \in [Kinds -> {"none", "serving", "failed", "done"}]
    /\ a.cert \in Files /\ {a.asked, a.routed} \union a.pricers \union a.lost \subseteq Lists
    /\ pc = "select" => /\ a.server["https"] # "none"
                        /\ Set("tor") => a.server["tor"] # "none"

\* A certificate or key of the user is never deleted or overwritten, whatever
\* expires, fails or crashes (getTLSConfig).
UserFilesKept ==
    [][ /\ file.cert = User => file'.cert = User
        /\ file.key = User => file'.key = User ]_file

\* The certificate a server presents is the one on disk, with its key: the
\* next start presents the same one (getTLSConfig, also after a renewal).
ServesStoredPair ==
    a.cert # NoFile /\ pc \in StopSteps \union {"serve", "tor", "servetor", "select"}
        => file = [cert |-> a.cert, key |-> a.cert]

\* When Stop returns, nothing that Start started is left: the challenger, the
\* HashMail server, the database, both servers, the pricers the routed services
\* refer to.  Any other pricer still open was opened through UpdateServices.
AllReleased ==
    pc = "stopped" =>
        /\ a.challenger \in {"none", "stopped"} /\ a.hashmail \in {"none", "stopped"}
        /\ a.db = "stopped" /\ a.routed \notin a.pricers
        /\ ~a.updated => a.pricers = {} /\ a.lost = {}
        /\ a.open = {} /\ \A k \in Kinds : a.server[k] \in {"none", "done"}

\* A server that ends, also while Start is still running, ends the process,
\* and Stop never hangs (run, Stop).
FailureEndsProcess ==
    ((\E k \in Kinds : a.server[k] = "failed") \/ pc \in StopSteps) ~> pc = "exited"

\* While aperture runs, the onion service it was asked for exists.
OnionIsPublished == pc = "select" /\ Set("tor") => a.onion

\* A list of services that UpdateServices has accepted is the one that
\* requests are matched with.
UpdateTakesEffect == a.routed = a.asked
=============================================================================
