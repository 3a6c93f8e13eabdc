CONSTANTS
  Checksum <- CRC16
  HostEncode <- EncodeRequest
  HostDecode <- Decode
  DeviceEncode <- ssmp_encode
  DeviceDecode <- MCDeviceDecode
  Texts <- MCTexts
  Masks <- MCMasks
  Requests <- MCRequests
  Events <- MCEvents
  FirstId = 149
  RingSize = 97
  PacketSize = 64
  Initial <- MCInitial
  Cuts = {0, 2, 1000}
  MaxSent = 2
  MaxTraps = 1
  MaxFaults = 1
SPECIFICATION Spec
INVARIANT Faithful
INVARIANT Understood
INVARIANT Resyncs
INVARIANT Served
INVARIANT Obeyed
CHECK_DEADLOCK FALSE
