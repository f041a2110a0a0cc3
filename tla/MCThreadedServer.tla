-------------------------- MODULE MCThreadedServer --------------------------
(* The servers for model checking: clients and users are model values of the
   configuration.  Two clients visit where nobody but start() and a service
   closes, and where no worker is counted; two users close at most one client. *)
EXTENDS ServerKinds

CONSTANTS c1, c2, u1, u2

Visit(k, cs, us) == [kind |-> k, clients |-> cs, users |-> us]

Scenarios ==
    {Visit("threaded", {c1}, {u1, u2}), Visit("threaded", {c1, c2}, {}),
     Visit("gevent", {c1}, {u1}), Visit("oneshot", {c1, c2}, {u1}),
     Visit("forking", {c1, c2}, {u1})}
=============================================================================
