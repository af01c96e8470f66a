--------------------------- MODULE MCDeviceConfig ---------------------------
(***************************************************************************)
(* DeviceConfig on a board with two radios, three jacks, and profiles that *)
(* differ in what the authoring distinguishes.                             *)
(***************************************************************************)
EXTENDS DeviceConfig

TwoRadios == <<"radio0", "radio1">>
TwoBands == "radio0" :> "5g" @@ "radio1" :> "2g"
Jacks == {"lan1", "lan2"}

\* With the mesh as batman's only link, with a jack wired to it, and with the
\* bridge for an uplink.
Looking == [batman |-> TRUE, wired |-> {}, explicit |-> FALSE, watched |-> TRUE,
            meshRadio |-> ""]
Told == [batman |-> TRUE, wired |-> {"lan1"}, explicit |-> TRUE, watched |-> TRUE,
         meshRadio |-> "radio0"]
Unwatched == [Looking EXCEPT !.explicit = TRUE, !.watched = FALSE]
ThreeDevices == {Looking, Told, Unwatched}
LookingDevice == {Looking}
OneDevice == {[Looking EXCEPT !.explicit = TRUE]}
WiredDevice == {Told}
WiredUplink == {[Told EXCEPT !.wired = {"wan"}]}

\* A mesh and two access points, and one access point (no radio has "6g").
MeshAndTwoAPs == [mesh |-> TRUE, ap |-> "", bands |-> {}]
OneAP == [mesh |-> FALSE, ap |-> "5g", bands |-> {"5g", "6g"}]
TwoProfiles == {MeshAndTwoAPs, OneAP}
OneProfile == {MeshAndTwoAPs}

=============================================================================
