-------------------------- MODULE Aperture_proofs ---------------------------
(***************************************************************************)
(* Proofs about Aperture, for any configurations, lists of services and    *)
(* number of starts: the certificate that is served is the stored one, the *)
(* files of the user are never touched, and Stop releases everything.      *)
(***************************************************************************)
EXTENDS Aperture, TLAPS

(***************************************************************************)
(* The inductive invariant.  Certificates: which certificate is loaded,    *)
(* and whose files are there, at each step of getTLSConfig.  Releases: what*)
(* each step of Start has acquired and each step of Stop has released.     *)
(* Pricers: before the first UpdateServices only the routed services have  *)
(* open ones.  Servers: what Start has spawned when it returns.            *)
(***************************************************************************)
Early == {"exited", "config", "prometheus", "db"}
Loading == {"tls", "writecert", "writekey", "load"}
Writing == {"writecert", "writekey", "rmcert", "rmkey", "rewritecert", "rewritekey"}
Serving == {"serve", "tor", "servetor", "select"} \union StopSteps
Labels == Early \union {"auth", "proxy", "reload"} \union Loading \union Writing \union Serving

DBStopped == {"cleanup", "closetor", "closequit", "wait", "stopped"}

Structs ==
    [db : {"none", "open", "stopped"}, challenger : {"none", "running", "deaf", "stopped"},
     hashmail : {"none", "running", "stopped"},
     server : [Kinds -> {"none", "serving", "failed", "done"}],
     open : SUBSET Kinds, quit : BOOLEAN, onion : BOOLEAN, cert : Files,
     asked : Lists, routed : Lists,
     pricers : SUBSET Lists, lost : SUBSET Lists, updated : BOOLEAN]

Types ==
    /\ cfg \in Configs /\ boots \in 0..MaxBoots
    /\ pc \in Labels /\ (pc # "exited" => boots > 0)
    /\ a \in Structs
    /\ file \in [cert : Files, key : Files]

Certificates ==
    /\ pc \in Early \union {"auth", "proxy"} \union Loading => a.cert = NoFile
    /\ pc \in Serving /\ a.cert # NoFile => file.cert = a.cert /\ file.key = a.cert
    /\ pc \in Writing => file.cert.by # "user" /\ file.key.by # "user"

Releases ==
    /\ pc \notin Early \union DBStopped => a.db = "open"
    /\ pc \in DBStopped => a.db = "stopped"
    /\ pc \in {"proxycleanup", "closedb"} \union DBStopped => a.challenger \in {"none", "stopped"}
    /\ pc \in {"closedb"} \union DBStopped => a.hashmail \in {"none", "stopped"}
    /\ pc \in DBStopped \ {"cleanup"} => a.routed \notin a.pricers /\ "https" \notin a.open
    /\ pc \in {"closequit", "wait", "stopped"} => a.open = {}

Pricers ==
    /\ a.routed = cfg.list
    /\ pc \in Early \union {"auth", "proxy"} => a.pricers = {} /\ a.lost = {}
    /\ ~a.updated => a.lost = {} /\ a.pricers \subseteq {a.routed}

Servers ==
    /\ pc \in {"tor", "servetor", "select"} => a.server["https"] # "none"
    /\ pc = "select" /\ Set("tor") => a.server["tor"] # "none"
    /\ pc = "stopped" => \A k \in Kinds : a.server[k] \in {"none", "done"}

IInv == Types /\ Certificates /\ Releases /\ Pricers /\ Servers

(***************************************************************************)
(* The invariant is kept.                                                  *)
(***************************************************************************)
\* A process that has not started has nothing.
LEMMA NewTypes ==
    ASSUME cfg \in Configs
    PROVE  /\ NewAperture \in Structs
           /\ NewAperture.cert = NoFile
BY Zenon, ApertureAssumption DEF NewAperture, Structs, Files, Kinds

\* When main exits only the files are left.
LEMMA ExitIInv ==
    ASSUME IInv, Exit
    PROVE  IInv'
<1>1. Types'
  BY Zenon, NewTypes DEF IInv, Types, Exit, Labels, Early
<1>2. Certificates'
  BY Zenon, NewTypes
    DEF IInv, Types, Certificates, Exit, Labels, Early, Loading, Writing, Serving,
        StopSteps, DBStopped
<1>3. Releases' /\ Servers'
  BY Zenon DEF Releases, Servers, Exit, Labels, Early, Loading, Writing, Serving, StopSteps,
      DBStopped
<1>4. Pricers'
  BY Zenon DEF Pricers, Exit, NewAperture
<1> QED  BY Zenon, <1>1, <1>2, <1>3, <1>4 DEF IInv

\* The names of the files.
LEMMA FileTypes ==
    /\ NoFile \in Files /\ User \in Files
    /\ NoFile.by = "none"
    /\ \A b \in 1..MaxBoots :
         /\ Self(2 * b - 1) \in Files /\ Self(2 * b) \in Files
         /\ Self(2 * b - 1).by = "self" /\ Self(2 * b).by = "self"
BY ApertureAssumption DEF Files, NoFile, User, Self

\* Every step keeps the types.
LEMMA TypeStep ==
    ASSUME IInv, Next
    PROVE  Types'
<1> USE DEF IInv, Types, Structs, Kinds, Labels, Early, Loading, Writing, Serving,
        StopSteps, DBStopped
<1>1. CASE Boot
  BY <1>1, ApertureAssumption DEF Boot, At
<1>2. CASE GetConfig
  BY Zenon, <1>2 DEF GetConfig, Step, At
<1>3. CASE StartProfile
  BY Zenon, <1>3 DEF StartProfile, Step, At
<1>4. CASE OpenDB
  BY Zenon, <1>4 DEF OpenDB, Step, At
<1>5. CASE StartChallenger
  BY Zenon, <1>5 DEF StartChallenger, Step, At
<1>6. CASE NoChallenger
  BY Zenon, <1>6 DEF NoChallenger, Step, At
<1>7. CASE CreateProxy
  BY ZenonT(30), <1>7, ApertureAssumption DEF CreateProxy, PrepareServices, Step, At
<1>8. CASE NoOwnCert
  BY Zenon, <1>8 DEF NoOwnCert, Step, At
<1>9. CASE GetTLSConfig
  BY Zenon, <1>9 DEF GetTLSConfig, Step, At, HaveFiles
<1>10. CASE LoadCert
  BY Zenon, <1>10 DEF LoadCert, Step, At, Matches
<1>11. CASE LoadDue
  BY Zenon, <1>11 DEF LoadDue, Step, At, Matches
<1>12. CASE Reload
  BY Zenon, <1>12 DEF Reload, Step, At, Matches
<1>13. CASE Serve
  BY Zenon, <1>13 DEF Serve, Step, At, Spawn
<1>14. CASE InitTorListener
  BY Zenon, <1>14 DEF InitTorListener, Step, At
<1>15. CASE ServeTor
  BY Zenon, <1>15 DEF ServeTor, Step, At, Spawn
<1>16. CASE StopChallenger
  BY Zenon, <1>16 DEF StopChallenger, Step, At, Stopped
<1>17. CASE ProxyCleanup
  BY Zenon, <1>17 DEF ProxyCleanup, Step, At, Stopped
<1>18. CASE CloseDB
  BY Zenon, <1>18 DEF CloseDB, Step, At, Stopped
<1>19. CASE Cleanup
  BY Zenon, <1>19 DEF Cleanup, Step, At
<1>20. CASE CloseTor
  BY Zenon, <1>20 DEF CloseTor, Step, At
<1>21. CASE CloseQuit
  BY Zenon, <1>21 DEF CloseQuit, Step, At
<1>22. CASE Wait
  BY Zenon, <1>22 DEF Wait, Step, At
<1>23. CASE Signal
  BY Zenon, <1>23 DEF Signal, Step, At
<1>24. CASE WriteCert
  BY <1>24, FileTypes DEF WriteCert, FileStep, At
<1>25. CASE WriteKey
  BY Zenon, <1>25, FileTypes DEF WriteKey, FileStep, At
<1>26. CASE RemoveCert
  BY Zenon, <1>26, FileTypes DEF RemoveCert, FileStep, At
<1>27. CASE RemoveKey
  BY Zenon, <1>27, FileTypes DEF RemoveKey, FileStep, At
<1>28. CASE WriteFails
  BY Zenon, <1>28, FileTypes, NewTypes DEF WriteFails
<1>29. ASSUME NEW k \in Kinds, ServeReturns(k) PROVE Types'
  BY Zenon, <1>29 DEF ServeReturns
<1>30. ASSUME NEW k \in Kinds, ReportError(k) PROVE Types'
  BY Zenon, <1>30 DEF ReportError, At
<1>31. CASE ChallengerFails
  BY Zenon, <1>31 DEF ChallengerFails, At
<1>32. ASSUME NEW s \in Lists, UpdateServices(s) PROVE Types'
  BY Zenon, <1>32 DEF UpdateServices, PrepareServices, Step, At
<1>33. ASSUME NEW s \in Lists, UpdateServicesFails(s) PROVE Types'
  <2>1. CASE Step("select", "select", [a EXCEPT !.updated = TRUE])
    BY Zenon, <2>1 DEF Step, At
  <2>2. CASE Step("select", "select", [PrepareServices(a, s) EXCEPT !.updated = TRUE])
    BY Zenon, <2>2 DEF PrepareServices, Step, At
  <2> QED  BY Zenon, <1>33, <2>1, <2>2 DEF UpdateServicesFails
<1>34. CASE Exit
  BY Zenon, <1>34, ExitIInv
<1> QED
  BY Zenon, <1>1, <1>2, <1>3, <1>4, <1>5, <1>6, <1>7, <1>8, <1>9, <1>10, <1>11,
     <1>12, <1>13, <1>14, <1>15, <1>16, <1>17, <1>18, <1>19, <1>20, <1>21,
     <1>22, <1>23, <1>24, <1>25, <1>26, <1>27, <1>28, <1>29, <1>30, <1>31,
     <1>32, <1>33, <1>34
  DEF Next, Main, GetConfigFails, StartProfileFails, OpenDBFails, StartChallengerFails,
      CreateProxyFails, AutocertFails,
      RemoveFails, LoadFails, InitTorFails, MainExits, Crash

\* Every step keeps what is loaded equal to what is stored, and writes only over
\* files of its own.
LEMMA CertStep ==
    ASSUME IInv, Next
    PROVE  Certificates'
<1> USE DEF IInv, Types, Structs, Certificates, Labels, Early, Loading, Writing, Serving,
        StopSteps, DBStopped
<1>1. CASE Boot
  BY Zenon, <1>1, ApertureAssumption DEF Boot, At
<1>2. CASE GetConfig
  BY Zenon, <1>2 DEF GetConfig, Step, At
<1>3. CASE StartProfile
  BY Zenon, <1>3 DEF StartProfile, Step, At
<1>4. CASE OpenDB
  BY Zenon, <1>4 DEF OpenDB, Step, At
<1>5. CASE StartChallenger
  BY Zenon, <1>5 DEF StartChallenger, Step, At
<1>6. CASE NoChallenger
  BY Zenon, <1>6 DEF NoChallenger, Step, At
<1>7. CASE CreateProxy
  BY Zenon, <1>7, ApertureAssumption DEF CreateProxy, PrepareServices, Step, At
<1>8. CASE NoOwnCert
  BY Zenon, <1>8 DEF NoOwnCert, Step, At
<1>9. CASE GetTLSConfig
  BY Zenon, <1>9, FileTypes DEF GetTLSConfig, Step, At, HaveFiles
<1>10. CASE LoadCert
  BY Zenon, <1>10 DEF LoadCert, Step, At, Matches
<1>11. CASE LoadDue
  BY Zenon, <1>11, FileTypes DEF LoadDue, Step, At, Matches
<1>12. CASE Reload
  BY Zenon, <1>12 DEF Reload, Step, At, Matches
<1>13. CASE Serve
  BY Zenon, <1>13 DEF Serve, Step, At, Spawn
<1>14. CASE InitTorListener
  BY Zenon, <1>14 DEF InitTorListener, Step, At
<1>15. CASE ServeTor
  BY Zenon, <1>15 DEF ServeTor, Step, At, Spawn
<1>16. CASE StopChallenger
  BY Zenon, <1>16 DEF StopChallenger, Step, At, Stopped
<1>17. CASE ProxyCleanup
  BY Zenon, <1>17 DEF ProxyCleanup, Step, At, Stopped
<1>18. CASE CloseDB
  BY Zenon, <1>18 DEF CloseDB, Step, At, Stopped
<1>19. CASE Cleanup
  BY Zenon, <1>19 DEF Cleanup, Step, At
<1>20. CASE CloseTor
  BY Zenon, <1>20 DEF CloseTor, Step, At
<1>21. CASE CloseQuit
  BY Zenon, <1>21 DEF CloseQuit, Step, At
<1>22. CASE Wait
  BY Zenon, <1>22 DEF Wait, Step, At
<1>23. CASE Signal
  BY Zenon, <1>23 DEF Signal, Step, At
<1>24. CASE WriteCert
  BY <1>24, FileTypes DEF WriteCert, FileStep, At
<1>25. CASE WriteKey
  BY Zenon, <1>25, FileTypes DEF WriteKey, FileStep, At
<1>26. CASE RemoveCert
  BY Zenon, <1>26, FileTypes DEF RemoveCert, FileStep, At
<1>27. CASE RemoveKey
  BY Zenon, <1>27, FileTypes DEF RemoveKey, FileStep, At
<1>28. CASE WriteFails
  BY Zenon, <1>28, FileTypes, NewTypes DEF WriteFails
<1>29. ASSUME NEW k \in Kinds, ServeReturns(k) PROVE Certificates'
  BY Zenon, <1>29 DEF ServeReturns
<1>30. ASSUME NEW k \in Kinds, ReportError(k) PROVE Certificates'
  BY Zenon, <1>30 DEF ReportError, At
<1>31. CASE ChallengerFails
  BY Zenon, <1>31 DEF ChallengerFails, At
<1>32. ASSUME NEW s \in Lists, UpdateServices(s) PROVE Certificates'
  BY Zenon, <1>32 DEF UpdateServices, PrepareServices, Step, At
<1>33. ASSUME NEW s \in Lists, UpdateServicesFails(s) PROVE Certificates'
  <2>1. CASE Step("select", "select", [a EXCEPT !.updated = TRUE])
    BY Zenon, <2>1 DEF Step, At
  <2>2. CASE Step("select", "select", [PrepareServices(a, s) EXCEPT !.updated = TRUE])
    BY Zenon, <2>2 DEF PrepareServices, Step, At
  <2> QED  BY Zenon, <1>33, <2>1, <2>2 DEF UpdateServicesFails
<1>34. CASE Exit
  BY Zenon, <1>34, ExitIInv
<1> QED
  BY Zenon, <1>1, <1>2, <1>3, <1>4, <1>5, <1>6, <1>7, <1>8, <1>9, <1>10, <1>11,
     <1>12, <1>13, <1>14, <1>15, <1>16, <1>17, <1>18, <1>19, <1>20, <1>21,
     <1>22, <1>23, <1>24, <1>25, <1>26, <1>27, <1>28, <1>29, <1>30, <1>31,
     <1>32, <1>33, <1>34
  DEF Next, Main, GetConfigFails, StartProfileFails, OpenDBFails, StartChallengerFails,
      CreateProxyFails, AutocertFails,
      RemoveFails, LoadFails, InitTorFails, MainExits, Crash

\* Every step of Start and Stop accounts for what it acquires and releases.
LEMMA ReleaseStep ==
    ASSUME IInv, Next
    PROVE  Releases'
<1> USE DEF IInv, Types, Structs, Kinds, Releases, Labels, Early, Loading, Writing,
        Serving, StopSteps, DBStopped
<1>1. CASE Boot
  BY Zenon, <1>1, ApertureAssumption DEF Boot, At
<1>2. CASE GetConfig
  BY Zenon, <1>2 DEF GetConfig, Step, At
<1>3. CASE StartProfile
  BY Zenon, <1>3 DEF StartProfile, Step, At
<1>4. CASE OpenDB
  BY Zenon, <1>4 DEF OpenDB, Step, At
<1>5. CASE StartChallenger
  BY Zenon, <1>5 DEF StartChallenger, Step, At
<1>6. CASE NoChallenger
  BY Zenon, <1>6 DEF NoChallenger, Step, At
<1>7. CASE CreateProxy
  BY Zenon, <1>7, ApertureAssumption DEF CreateProxy, PrepareServices, Step, At
<1>8. CASE NoOwnCert
  BY Zenon, <1>8 DEF NoOwnCert, Step, At
<1>9. CASE GetTLSConfig
  BY Zenon, <1>9 DEF GetTLSConfig, Step, At, HaveFiles
<1>10. CASE LoadCert
  BY Zenon, <1>10 DEF LoadCert, Step, At, Matches
<1>11. CASE LoadDue
  BY Zenon, <1>11 DEF LoadDue, Step, At, Matches
<1>12. CASE Reload
  BY Zenon, <1>12 DEF Reload, Step, At, Matches
<1>13. CASE Serve
  BY Zenon, <1>13 DEF Serve, Step, At, Spawn
<1>14. CASE InitTorListener
  BY Zenon, <1>14 DEF InitTorListener, Step, At
<1>15. CASE ServeTor
  BY Zenon, <1>15 DEF ServeTor, Step, At, Spawn
<1>16. CASE StopChallenger
  BY Zenon, <1>16 DEF StopChallenger, Step, At, Stopped
<1>17. CASE ProxyCleanup
  BY Zenon, <1>17 DEF ProxyCleanup, Step, At, Stopped
<1>18. CASE CloseDB
  BY Zenon, <1>18 DEF CloseDB, Step, At, Stopped
<1>19. CASE Cleanup
  BY Zenon, <1>19 DEF Cleanup, Step, At
<1>20. CASE CloseTor
  BY <1>20 DEF CloseTor, Step, At
<1>21. CASE CloseQuit
  BY Zenon, <1>21 DEF CloseQuit, Step, At
<1>22. CASE Wait
  BY Zenon, <1>22 DEF Wait, Step, At
<1>23. CASE Signal
  BY Zenon, <1>23 DEF Signal, Step, At
<1>24. CASE WriteCert
  BY Zenon, <1>24, FileTypes DEF WriteCert, FileStep, At
<1>25. CASE WriteKey
  BY Zenon, <1>25, FileTypes DEF WriteKey, FileStep, At
<1>26. CASE RemoveCert
  BY Zenon, <1>26, FileTypes DEF RemoveCert, FileStep, At
<1>27. CASE RemoveKey
  BY Zenon, <1>27, FileTypes DEF RemoveKey, FileStep, At
<1>28. CASE WriteFails
  BY Zenon, <1>28, FileTypes, NewTypes DEF WriteFails
<1>29. ASSUME NEW k \in Kinds, ServeReturns(k) PROVE Releases'
  BY Zenon, <1>29 DEF ServeReturns
<1>30. ASSUME NEW k \in Kinds, ReportError(k) PROVE Releases'
  BY Zenon, <1>30 DEF ReportError, At
<1>31. CASE ChallengerFails
  BY Zenon, <1>31 DEF ChallengerFails, At
<1>32. ASSUME NEW s \in Lists, UpdateServices(s) PROVE Releases'
  BY Zenon, <1>32 DEF UpdateServices, PrepareServices, Step, At
<1>33. ASSUME NEW s \in Lists, UpdateServicesFails(s) PROVE Releases'
  <2>1. CASE Step("select", "select", [a EXCEPT !.updated = TRUE])
    BY Zenon, <2>1 DEF Step, At
  <2>2. CASE Step("select", "select", [PrepareServices(a, s) EXCEPT !.updated = TRUE])
    BY Zenon, <2>2 DEF PrepareServices, Step, At
  <2> QED  BY Zenon, <1>33, <2>1, <2>2 DEF UpdateServicesFails
<1>34. CASE Exit
  BY Zenon, <1>34, ExitIInv
<1> QED
  BY Zenon, <1>1, <1>2, <1>3, <1>4, <1>5, <1>6, <1>7, <1>8, <1>9, <1>10, <1>11,
     <1>12, <1>13, <1>14, <1>15, <1>16, <1>17, <1>18, <1>19, <1>20, <1>21,
     <1>22, <1>23, <1>24, <1>25, <1>26, <1>27, <1>28, <1>29, <1>30, <1>31,
     <1>32, <1>33, <1>34
  DEF Next, Main, GetConfigFails, StartProfileFails, OpenDBFails, StartChallengerFails,
      CreateProxyFails, AutocertFails,
      RemoveFails, LoadFails, InitTorFails, MainExits, Crash

\* Every step but UpdateServices leaves open only pricers that Close will find.
LEMMA PricerStep ==
    ASSUME IInv, Next
    PROVE  Pricers'
<1> USE DEF IInv, Types, Structs, Kinds, Pricers, Labels, Early, Loading, Writing,
        Serving, StopSteps, DBStopped
<1>1. CASE Boot
  BY Zenon, <1>1, ApertureAssumption DEF Boot, At
<1>2. CASE GetConfig
  BY Zenon, <1>2 DEF GetConfig, Step, At
<1>3. CASE StartProfile
  BY Zenon, <1>3 DEF StartProfile, Step, At
<1>4. CASE OpenDB
  BY Zenon, <1>4 DEF OpenDB, Step, At
<1>5. CASE StartChallenger
  BY Zenon, <1>5 DEF StartChallenger, Step, At
<1>6. CASE NoChallenger
  BY Zenon, <1>6 DEF NoChallenger, Step, At
<1>7. CASE CreateProxy
  BY Zenon, <1>7, ApertureAssumption DEF CreateProxy, PrepareServices, Step, At
<1>8. CASE NoOwnCert
  BY Zenon, <1>8 DEF NoOwnCert, Step, At
<1>9. CASE GetTLSConfig
  BY Zenon, <1>9 DEF GetTLSConfig, Step, At, HaveFiles
<1>10. CASE LoadCert
  BY Zenon, <1>10 DEF LoadCert, Step, At, Matches
<1>11. CASE LoadDue
  BY Zenon, <1>11 DEF LoadDue, Step, At, Matches
<1>12. CASE Reload
  BY Zenon, <1>12 DEF Reload, Step, At, Matches
<1>13. CASE Serve
  BY Zenon, <1>13 DEF Serve, Step, At, Spawn
<1>14. CASE InitTorListener
  BY Zenon, <1>14 DEF InitTorListener, Step, At
<1>15. CASE ServeTor
  BY Zenon, <1>15 DEF ServeTor, Step, At, Spawn
<1>16. CASE StopChallenger
  BY Zenon, <1>16 DEF StopChallenger, Step, At, Stopped
<1>17. CASE ProxyCleanup
  BY Zenon, <1>17 DEF ProxyCleanup, Step, At, Stopped
<1>18. CASE CloseDB
  BY Zenon, <1>18 DEF CloseDB, Step, At, Stopped
<1>19. CASE Cleanup
  BY Zenon, <1>19 DEF Cleanup, Step, At
<1>20. CASE CloseTor
  BY Zenon, <1>20 DEF CloseTor, Step, At
<1>21. CASE CloseQuit
  BY Zenon, <1>21 DEF CloseQuit, Step, At
<1>22. CASE Wait
  BY Zenon, <1>22 DEF Wait, Step, At
<1>23. CASE Signal
  BY Zenon, <1>23 DEF Signal, Step, At
<1>24. CASE WriteCert
  BY Zenon, <1>24, FileTypes DEF WriteCert, FileStep, At
<1>25. CASE WriteKey
  BY Zenon, <1>25, FileTypes DEF WriteKey, FileStep, At
<1>26. CASE RemoveCert
  BY Zenon, <1>26, FileTypes DEF RemoveCert, FileStep, At
<1>27. CASE RemoveKey
  BY Zenon, <1>27, FileTypes DEF RemoveKey, FileStep, At
<1>28. CASE WriteFails
  BY Zenon, <1>28 DEF WriteFails, NewAperture
<1>29. ASSUME NEW k \in Kinds, ServeReturns(k) PROVE Pricers'
  BY Zenon, <1>29 DEF ServeReturns
<1>30. ASSUME NEW k \in Kinds, ReportError(k) PROVE Pricers'
  BY Zenon, <1>30 DEF ReportError, At
<1>31. CASE ChallengerFails
  BY Zenon, <1>31 DEF ChallengerFails, At
<1>32. ASSUME NEW s \in Lists, UpdateServices(s) PROVE Pricers'
  BY Zenon, <1>32 DEF UpdateServices, PrepareServices, Step, At
<1>33. ASSUME NEW s \in Lists, UpdateServicesFails(s) PROVE Pricers'
  <2>1. CASE Step("select", "select", [a EXCEPT !.updated = TRUE])
    BY Zenon, <2>1 DEF Step, At
  <2>2. CASE Step("select", "select", [PrepareServices(a, s) EXCEPT !.updated = TRUE])
    BY Zenon, <2>2 DEF PrepareServices, Step, At
  <2> QED  BY Zenon, <1>33, <2>1, <2>2 DEF UpdateServicesFails
<1>34. CASE Exit
  BY Zenon, <1>34, ExitIInv
<1> QED
  BY Zenon, <1>1, <1>2, <1>3, <1>4, <1>5, <1>6, <1>7, <1>8, <1>9, <1>10, <1>11,
     <1>12, <1>13, <1>14, <1>15, <1>16, <1>17, <1>18, <1>19, <1>20, <1>21,
     <1>22, <1>23, <1>24, <1>25, <1>26, <1>27, <1>28, <1>29, <1>30, <1>31,
     <1>32, <1>33, <1>34
  DEF Next, Main, GetConfigFails, StartProfileFails, OpenDBFails, StartChallengerFails,
      CreateProxyFails, AutocertFails,
      RemoveFails, LoadFails, InitTorFails, MainExits, Crash

\* Every step keeps the servers that Start has spawned.
LEMMA ServerStep ==
    ASSUME IInv, Next
    PROVE  Servers'
<1> USE DEF IInv, Types, Structs, Kinds, Servers, Set, Labels, Early, Loading, Writing,
        Serving, StopSteps, DBStopped
<1>1. CASE Boot
  BY Zenon, <1>1, ApertureAssumption DEF Boot, At
<1>2. CASE GetConfig
  BY Zenon, <1>2 DEF GetConfig, Step, At
<1>3. CASE StartProfile
  BY Zenon, <1>3 DEF StartProfile, Step, At
<1>4. CASE OpenDB
  BY Zenon, <1>4 DEF OpenDB, Step, At
<1>5. CASE StartChallenger
  BY Zenon, <1>5 DEF StartChallenger, Step, At
<1>6. CASE NoChallenger
  BY Zenon, <1>6 DEF NoChallenger, Step, At
<1>7. CASE CreateProxy
  BY Zenon, <1>7, ApertureAssumption DEF CreateProxy, PrepareServices, Step, At
<1>8. CASE NoOwnCert
  BY Zenon, <1>8 DEF NoOwnCert, Step, At
<1>9. CASE GetTLSConfig
  BY Zenon, <1>9 DEF GetTLSConfig, Step, At, HaveFiles
<1>10. CASE LoadCert
  BY Zenon, <1>10 DEF LoadCert, Step, At, Matches
<1>11. CASE LoadDue
  BY Zenon, <1>11 DEF LoadDue, Step, At, Matches
<1>12. CASE Reload
  BY Zenon, <1>12 DEF Reload, Step, At, Matches
<1>13. CASE Serve
  BY Zenon, <1>13 DEF Serve, Step, At, Spawn
<1>14. CASE InitTorListener
  BY Zenon, <1>14 DEF InitTorListener, Step, At
<1>15. CASE ServeTor
  BY Zenon, <1>15 DEF ServeTor, Step, At, Spawn
<1>16. CASE StopChallenger
  BY Zenon, <1>16 DEF StopChallenger, Step, At, Stopped
<1>17. CASE ProxyCleanup
  BY Zenon, <1>17 DEF ProxyCleanup, Step, At, Stopped
<1>18. CASE CloseDB
  BY Zenon, <1>18 DEF CloseDB, Step, At, Stopped
<1>19. CASE Cleanup
  BY Zenon, <1>19 DEF Cleanup, Step, At
<1>20. CASE CloseTor
  BY Zenon, <1>20 DEF CloseTor, Step, At
<1>21. CASE CloseQuit
  BY Zenon, <1>21 DEF CloseQuit, Step, At
<1>22. CASE Wait
  BY Zenon, <1>22 DEF Wait, Step, At
<1>23. CASE Signal
  BY Zenon, <1>23 DEF Signal, Step, At
<1>24. CASE WriteCert
  BY Zenon, <1>24, FileTypes DEF WriteCert, FileStep, At
<1>25. CASE WriteKey
  BY Zenon, <1>25, FileTypes DEF WriteKey, FileStep, At
<1>26. CASE RemoveCert
  BY Zenon, <1>26, FileTypes DEF RemoveCert, FileStep, At
<1>27. CASE RemoveKey
  BY Zenon, <1>27, FileTypes DEF RemoveKey, FileStep, At
<1>28. CASE WriteFails
  BY Zenon, <1>28, FileTypes, NewTypes DEF WriteFails
<1>29. ASSUME NEW k \in Kinds, ServeReturns(k) PROVE Servers'
  BY Zenon, <1>29 DEF ServeReturns
<1>30. ASSUME NEW k \in Kinds, ReportError(k) PROVE Servers'
  BY Zenon, <1>30 DEF ReportError, At
<1>31. CASE ChallengerFails
  BY Zenon, <1>31 DEF ChallengerFails, At
<1>32. ASSUME NEW s \in Lists, UpdateServices(s) PROVE Servers'
  BY Zenon, <1>32 DEF UpdateServices, PrepareServices, Step, At
<1>33. ASSUME NEW s \in Lists, UpdateServicesFails(s) PROVE Servers'
  <2>1. CASE Step("select", "select", [a EXCEPT !.updated = TRUE])
    BY Zenon, <2>1 DEF Step, At
  <2>2. CASE Step("select", "select", [PrepareServices(a, s) EXCEPT !.updated = TRUE])
    BY Zenon, <2>2 DEF PrepareServices, Step, At
  <2> QED  BY Zenon, <1>33, <2>1, <2>2 DEF UpdateServicesFails
<1>34. CASE Exit
  BY Zenon, <1>34, ExitIInv
<1> QED
  BY Zenon, <1>1, <1>2, <1>3, <1>4, <1>5, <1>6, <1>7, <1>8, <1>9, <1>10, <1>11,
     <1>12, <1>13, <1>14, <1>15, <1>16, <1>17, <1>18, <1>19, <1>20, <1>21,
     <1>22, <1>23, <1>24, <1>25, <1>26, <1>27, <1>28, <1>29, <1>30, <1>31,
     <1>32, <1>33, <1>34
  DEF Next, Main, GetConfigFails, StartProfileFails, OpenDBFails, StartChallengerFails,
      CreateProxyFails, AutocertFails,
      RemoveFails, LoadFails, InitTorFails, MainExits, Crash

\* The invariant holds before the first start.
LEMMA InitIInv == Init => IInv
<1> SUFFICES ASSUME Init PROVE IInv
  BY Zenon
<1>1. Types
  BY NewTypes, ApertureAssumption DEF Init, Types, Labels, Early, Files, Self
<1>2. Certificates
  BY Zenon, NewTypes
    DEF Init, Certificates, Labels, Early, Loading, Writing, Serving, StopSteps, DBStopped
<1>3. Releases /\ Servers
  BY Zenon DEF Init, Releases, Servers, Labels, Early, Loading, Writing, Serving, StopSteps,
      DBStopped
<1>4. Pricers
  BY Zenon DEF Pricers, Init, NewAperture
<1> QED  BY Zenon, <1>1, <1>2, <1>3, <1>4 DEF IInv

\* Every step preserves the invariant.
LEMMA NextIInv == IInv /\ [Next]_vars => IInv'
<1>1. ASSUME IInv, Next PROVE IInv'
  BY Zenon, <1>1, TypeStep, CertStep, ReleaseStep, PricerStep, ServerStep DEF IInv
<1>2. ASSUME IInv, UNCHANGED vars PROVE IInv'
  BY <1>2 DEF IInv, Types, Certificates, Releases, Pricers, Servers, Set, vars
<1> QED  BY Zenon, <1>1, <1>2

\* The invariant holds in every reachable state.
LEMMA Invariance == Spec => []IInv
BY InitIInv, NextIInv, PTL DEF Spec

(***************************************************************************)
(* The theorems.                                                           *)
(***************************************************************************)
\* The types of the process and its files, for any configurations and number
\* of starts; when Start has returned its servers were started.
THEOREM TypeCorrect == Spec => []TypeOK
<1>1. IInv => TypeOK
  BY Zenon DEF IInv, Types, Structs, Servers, TypeOK
<1> QED  BY <1>1, Invariance, PTL

\* What a server presents is on disk with its key, through renewals, failures
\* and crashes in the middle of a renewal (getTLSConfig).
THEOREM ServesStored == Spec => []ServesStoredPair
<1>1. IInv => ServesStoredPair
  BY Zenon DEF IInv, Types, Certificates, Serving, ServesStoredPair
<1> QED  BY <1>1, Invariance, PTL

\* Stop gives back everything that Start took, whatever failed in between, and
\* leaves no pricer open but those UpdateServices opened (Aperture.Stop,
\* Proxy.Close).
THEOREM StopReleases == Spec => []AllReleased
<1>1. ASSUME IInv, pc = "stopped", ~a.updated
      PROVE  a.pricers = {} /\ a.lost = {}
  BY <1>1 DEF IInv, Types, Structs, Releases, Pricers, DBStopped
<1>2. IInv => AllReleased
  BY Zenon, <1>1 DEF IInv, Types, Structs, Releases, Servers, DBStopped, AllReleased
<1> QED  BY <1>2, Invariance, PTL

\* No step deletes or overwrites a certificate or key of the user
\* (getTLSConfig).
THEOREM KeepsUserFiles == Spec => UserFilesKept
<1>1. ASSUME IInv, [Next]_vars
      PROVE  [/\ file.cert = User => file'.cert = User
              /\ file.key = User => file'.key = User]_file
  <2> SUFFICES ASSUME file' # file
               PROVE  file.cert # User /\ file.key # User
    BY Zenon
  <2>1. pc \in Writing
    <3>1. WriteCert \/ WriteKey \/ WriteFails \/ RemoveCert \/ RemoveKey
      BY Zenon, <1>1 DEF Next, Main, vars, Boot, GetConfig, StartProfile, OpenDB,
             StartChallenger, NoChallenger, CreateProxy, NoOwnCert,
             GetTLSConfig, LoadCert, LoadDue, Reload, Serve,
             InitTorListener, ServeTor, StopChallenger, ProxyCleanup,
             CloseDB, Cleanup, CloseTor, CloseQuit, Wait, Signal,
             GetConfigFails, StartProfileFails, OpenDBFails,
             StartChallengerFails, CreateProxyFails, AutocertFails,
             RemoveFails, LoadFails, InitTorFails, MainExits, Crash,
             ServeReturns, ReportError, ChallengerFails,
             UpdateServices, UpdateServicesFails, Step, Exit
    <3> QED
      BY Zenon, <3>1
        DEF WriteCert, WriteKey, WriteFails, RemoveCert, RemoveKey, FileStep, At, Writing
  <2> QED  BY <1>1, <2>1 DEF IInv, Certificates, User
<1> QED  BY <1>1, Invariance, PTL DEF Spec, UserFilesKept
=============================================================================
