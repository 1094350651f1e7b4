------------------------------- MODULE Streams -------------------------------
(***************************************************************************)
(* The inputs of the application: the uplink's frame parser on usb0, the   *)
(* RC receiver on uart2, the GPS on uart1, and the stack of sensors with   *)
(* the chips on i2c0.  No two of them share any state, so nothing is       *)
(* gained by interleaving them: a behaviour follows one port.              *)
(***************************************************************************)
EXTENDS FrameParser, SbusReceiver, GpsDriver, SensorStack

VARIABLE port  \* the port that is followed

streamVars == <<port, frameVars, sbusVars, gpsVars, stackVars>>

StreamsInit ==
  /\ port \in {"usb0", "uart1", "uart2", "i2c0"}
  /\ FrameInit
  /\ SbusInit
  /\ GpsInit
  /\ StackInit
  \* Of what is not followed one state is as good as another.
  /\ port # "uart1" => gpsBaud = 1
  /\ port # "i2c0" => ~real /\ missing = {} /\ silent = {}

StreamsNext ==
  /\ UNCHANGED port
  /\ \/ /\ port = "usb0"
        /\ FrameNext
        /\ UNCHANGED <<sbusVars, gpsVars, stackVars>>
     \/ /\ port = "uart2"
        /\ SbusNext
        /\ UNCHANGED <<frameVars, gpsVars, stackVars>>
     \/ /\ port = "uart1"
        /\ GpsNext
        /\ UNCHANGED <<frameVars, sbusVars, stackVars>>
     \/ /\ port = "i2c0"
        /\ StackNext
        /\ UNCHANGED <<frameVars, sbusVars, gpsVars>>

StreamsSpec == StreamsInit /\ [][StreamsNext]_streamVars
=============================================================================
