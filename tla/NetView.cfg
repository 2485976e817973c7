SPECIFICATION Spec
CONSTANTS
  None = None
  p11 = p11
  p12 = p12
  p21 = p21
  leg = leg
  Iface <- MCIface
  Ip <- MCIp
  Mac <- MCMac
  Uuid <- MCUuid
  IpOf <- MCIpOf
  MacOf <- MCMacOf
  UuidOf <- MCUuidOf
  Reports <- MCReports
INVARIANTS
  TypeOK
  IndexMapsAgree
  OneVertexPerInterface
  ArpTableInGraph
PROPERTIES
  IdentityIsPermanent
