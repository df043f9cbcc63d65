----------------------------- MODULE MCAperture -----------------------------
(***************************************************************************)
(* TLC instance of Aperture: one configuration for each way Start can go,  *)
(* with the ones that are refused among them.                              *)
(***************************************************************************)
EXTENDS Aperture

CONSTANTS s1, s2, bad

Base == {"listenaddr", "invoicebatchsize"}
Lnd == Base \union {"lndhost", "tlspath", "macdir"}
Lnc == Base \union {"passphrase", "network"}

Config(opts, backend, list) == [opts |-> opts, backend |-> backend, list |-> list]

MCConfigs ==
    {Config(Lnd \union {"tor", "hashmail"}, "sqlite", s1),
     Config(Lnc \union {"hashmail"}, "postgres", s1),
     Config(Lnc \union {"insecure"}, "etcd", s1),
     Config(Lnd \union {"insecure", "tor"}, "etcd", s1),
     Config(Base \union {"disable", "autocert", "servername"}, "sqlite", s1),
     Config(Lnd \union {"autocert", "servestatic", "staticroot"}, "sqlite", s1),
     Config(Lnd \union {"servestatic"}, "sqlite", s1),
     Config(Lnd \union {"passphrase"}, "sqlite", s1),
     Config(Lnd \union {"badprofile"}, "sqlite", s1),
     Config(Lnd, "unknown", s1),
     Config(Lnd, "sqlite", bad)}
=============================================================================
