------------------------------ MODULE MCReload ------------------------------
(***************************************************************************)
(* Reload for TLC: two addresses, one named certificate with two ACME      *)
(* sources and a file, and a handful of configurations.                    *)
(***************************************************************************)
EXTENDS Reload, TLC

CONSTANTS b1, b2, edge, le, zero, pem

MCBind == {b1, b2}
MCCert == {edge}
MCSource == {le, zero, pem}
MCAcme == {le, zero}
MCCertOf == (b1 :> None) @@ (b2 :> edge)

Conf(bs, s) == [listeners |-> bs, certs |-> [n \in Cert |-> s], auth |-> "same"]

MCConfig ==
    {Conf({b1}, None), Conf({b1}, le), Conf({b2}, le), Conf({b1, b2}, zero), Conf({b2}, pem)}
      \cup {[Conf({b1}, None) EXCEPT !.auth = "other"]}

\* Every kind occurs; the tls kinds are on the address with a certificate.
MCKinds ==
    {(b1 :> "plain") @@ (b2 :> "tls"),
     (b1 :> "dgram") @@ (b2 :> "quic"),
     (b1 :> "plain") @@ (b2 :> "stream")}
=============================================================================
