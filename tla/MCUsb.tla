------------------------------- MODULE MCUsb -------------------------------
(* The USB tasks with two ports, and requests up to the third read of a     *)
(* mouse; or what is said on the wire.  A behaviour is one of the two.      *)
EXTENDS Usb, UsbWire

VARIABLE which  \* bound: the part that moves

MCInit ==
  /\ which \in {"tasks", "wire"}
  /\ Init /\ WireStart(IF which = "wire" THEN "reset" ELSE "off")
  /\ which = "tasks" => plugged = CHOOSE d \in Devices : TRUE
  /\ which = "wire" => ~rough

MCNext ==
  \/ which = "tasks" /\ Next /\ UNCHANGED <<wireVars, which>>
  \/ which = "wire" /\ WireNext /\ UNCHANGED <<vars, which>>

MCSpec ==
  /\ MCInit /\ [][MCNext]_<<vars, wireVars, which>>
  /\ which = "tasks" => Fairness
  /\ which = "wire" => WireFairness

Config(length) == <<9, 2, length, 0, 1, 1, 0, 160, 50>>
Interface(protocol) == <<9, 4, 0, 0, 1, 3, 1, protocol, 0>>
Hid == <<9, 33, 1, 0, 0, 1, 34, 52, 0>>
Endpoint(address, attributes) == <<7, 5, address, attributes, 4, 0, 10>>

Mice == Interface(2) \o Hid \o Endpoint(129, 3)
Keyboard == Interface(1) \o Hid \o Endpoint(129, 3)
Other == Interface(2) \o Endpoint(2, 3) \o Endpoint(131, 2) \o Endpoint(143, 3)

Device(n, d, ep, reports) ==
  [port |-> n, descriptors |-> Config(9 + Len(d)) \o d, endpoint |-> ep, reports |-> reports]

(* A mouse, a keyboard, one whose mouse has more endpoints after the        *)
(* keyboard's, on either port; a mouse with no endpoint to read, on which   *)
(* Mouse::service panics; and no device at all (port 0).                    *)
TestDevices ==
  {Device(n, Mice, 1, <<<<1, -1>>, <<127, -128>>, <<0, 5>>>>) : n \in 1 .. 2}
  \cup {Device(n, Keyboard, 0, <<>>) : n \in 0 .. 2}
  \cup {Device(1, Interface(2) \o Endpoint(2, 3), 0, <<>>)}
  \cup {Device(n, Keyboard \o Other, 15, <<<<-1, 0>>>>) : n \in 1 .. 2}

=============================================================================
