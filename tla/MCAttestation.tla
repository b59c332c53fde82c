---------------------------- MODULE MCAttestation ----------------------------
\* Instances of Attestation for TLC: a usual machine, and machines that differ
\* from it in one respect.
EXTENDS Attestation

Blob(p, d) == [pcr |-> p, digest |-> d]

Usual == [crtms |-> <<"crtm">>, blobs |-> <<Blob(0, "dxe"), Blob(2, "rom")>>,
          uki |-> "uki", on |-> TRUE,
          keys |-> [v \in KeyVars |-> IF v = "dbx" THEN {} ELSE {"ours"}],
          rest |-> {<<1, "EV_EFI_VARIABLE_BOOT">>, <<7, "EV_SEPARATOR">>,
                    <<7, "EV_EFI_VARIABLE_AUTHORITY">>, <<0, "EV_NO_ACTION">>,
                    <<9, "EV_EVENT_TAG">>, <<11, "EV_IPL">>},
          repeated |-> {<<1, "EV_EFI_VARIABLE_BOOT">>}]

MCSetups ==
    {Usual,
     [Usual EXCEPT !.uki = "newer"],
     [Usual EXCEPT !.blobs = <<Blob(2, "rom"), Blob(0, "dxe")>>],
     [Usual EXCEPT !.blobs = <<Blob(0, "dxe")>>],
     [Usual EXCEPT !.keys["dbx"] = {"revoked"}],
     [Usual EXCEPT !.keys["db"] = {"ours", "vendor"}],
     [Usual EXCEPT !.repeated = {<<7, "EV_EFI_VARIABLE_AUTHORITY">>, <<0, "EV_NO_ACTION">>}]}

MCDigests == {"crtm", "dxe", "rom", "uki", "newer", "menu"}
MCSignatures == {"ours", "vendor", "revoked"}
=============================================================================
