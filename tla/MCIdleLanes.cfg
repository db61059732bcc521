SPECIFICATION FairEndpointSpec
CONSTANTS
  client = client
  server = server
  Peer <- MCPeer
  Lane <- MCLane
  Origin <- MCOrigin
  FairLane <- MCLane
  Msg = {1}
  MaxSent <- MCMaxSent
  MaxInFlight = 2
  MayDuplicate = FALSE
CHECK_DEADLOCK FALSE
PROPERTY IdleLanesSilent
