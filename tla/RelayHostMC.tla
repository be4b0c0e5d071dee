----------------------------- MODULE RelayHostMC -----------------------------
(* A small instance of RelayHost for TLC.                                  *)
EXTENDS RelayHost, TLC

CONSTANTS d1, d2, b1, b2

TwoDeployers == {d1, d2}
TwoBuilds    == {b1, b2}

Https     == [scheme |-> "https", loopback |-> FALSE]
HttpLocal == [scheme |-> "http", loopback |-> TRUE]
HttpFar   == [scheme |-> "http", loopback |-> FALSE]

Plain == [listen |-> "any", tls |-> "none", url |-> Https]

\* A first deploy behind a reverse proxy, without the health check; a second one
\* with TLS, a host name, an address, or a URL that does not fit
FirstAndSecond ==
    (d1 :> {[unit |-> Plain, skip |-> TRUE, build |-> b1]}) @@
    (d2 :> [unit : {[Plain EXCEPT !.tls = "both"],
                    [Plain EXCEPT !.listen = "name"],
                    [Plain EXCEPT !.listen = "address"],
                    [Plain EXCEPT !.url = HttpFar],
                    [Plain EXCEPT !.tls = "both", !.url = HttpLocal]},
            skip : {FALSE}, build : {b2}])

Env(file, token, tls) == [file |-> file, token |-> token, tls |-> tls]
SomeEnvs == {Env(FALSE, "unset", "none"), Env(TRUE, "set", "none"), Env(TRUE, "set", "both")}
GoodCert == {TRUE}
\* The port is free, or another program's
FreeOrTaken == {Listens, {}}
=============================================================================
