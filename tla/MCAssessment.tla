--------------------------- MODULE MCAssessment ---------------------------
(***************************************************************************)
(* Instances of Assessment for TLC: ATA disks with two of the attributes   *)
(* 1, 5 and 197, an ATA disk behind a SCSI translation, NVMe and SCSI      *)
(* disks with and without their logs, and a device of unknown protocol.    *)
(***************************************************************************)
EXTENDS Assessment

Shape(protocol, ids, nvme, scsi) ==
    [protocol |-> protocol, ids |-> ids, nvme |-> nvme, scsi |-> scsi]

AllShapes ==
    {Shape("ATA", {1, 5}, FALSE, FALSE), Shape("ATA", {5, 197}, FALSE, FALSE),
     Shape("SCSI", {197}, FALSE, TRUE), Shape("ATA", {}, FALSE, FALSE),
     Shape("NVMe", {}, TRUE, FALSE), Shape("NVMe", {}, FALSE, FALSE),
     Shape("SCSI", {}, FALSE, TRUE), Shape("SCSI", {}, FALSE, FALSE),
     Shape("other", {}, FALSE, FALSE)}
=============================================================================
