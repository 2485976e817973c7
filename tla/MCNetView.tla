------------------------------ MODULE MCNetView ------------------------------
(* Four interfaces: two ports of switch 1, the port of switch 2 and a legacy *)
(* node.  Address and MAC are named by the interface they belong to.         *)
EXTENDS NetView

CONSTANTS p11, p12, p21, leg

MCIface == {p11, p12, p21, leg}
MCIp    == {<<"ip", i>> : i \in MCIface}
MCMac   == {<<"mac", i>> : i \in MCIface}
MCUuid  == {<<1, 1>>, <<1, 2>>, <<2, 1>>}
MCIpOf  == [i \in MCIface |-> <<"ip", i>>]
MCMacOf == [i \in MCIface |-> <<"mac", i>>]
MCUuidOf ==
  [i \in MCIface |-> CASE i = p11 -> <<1, 1>> [] i = p12 -> <<1, 2>>
                       [] i = p21 -> <<2, 1>> [] i = leg -> None]

(* Switch 1 hears the legacy node on its first port and switch 2 on its    *)
(* second, or nobody; switch 2 hears the second port of switch 1.          *)
MCReports ==
  { <<Port(p11), IpOnly(leg), Port(p12), IpOnly(p21)>>,
    <<Port(p11), Port(p12)>>,
    <<Port(p21), IpOnly(p12)>> }
=============================================================================
