SPECIFICATION FairEndpointSpec
CONSTANTS
  client = client
  server = server
  Peer <- MCPeer
  Lane <- MCLane
  Origin <- MCOrigin
  FairLane <- MCFairLane
  Msg = {1}
  MaxSent <- MCMaxSent
  MaxInFlight = 2
  MayDuplicate = TRUE
PROPERTY LanesAreChannels
PROPERTY EventuallyReceived
PROPERTY EventuallyAcked
CHECK_DEADLOCK FALSE
