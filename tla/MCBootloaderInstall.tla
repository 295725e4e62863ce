------------------------- MODULE MCBootloaderInstall -------------------------
(***************************************************************************)
(* Deployments for model-checking BootloaderInstall: partition images on   *)
(* new disks and on disks of an earlier deployment whose layout may        *)
(* differ, and whole-disk images with and without loaders or config drive. *)
(***************************************************************************)
EXTENDS BootloaderInstall

Plain == [mode |-> "bios", label |-> "msdos", ppc |-> FALSE, md |-> FALSE,
          ephemeral |-> FALSE, swap |-> FALSE, drive |-> FALSE, preserve |-> FALSE,
          rebuild |-> FALSE, disk |-> <<>>]
Uefi == [Plain EXCEPT !.mode = "uefi", !.label = "gpt"]
Full(r) == [r EXCEPT !.ephemeral = TRUE, !.swap = TRUE, !.drive = TRUE]

Left(r) == [n \in DOMAIN Layout(r) |->
              <<Layout(r)[n], IF Layout(r)[n] = "ephemeral" THEN "tenant" ELSE "image">>]

New == {Plain, Full(Plain), Uefi, Full(Uefi), [Plain EXCEPT !.ppc = TRUE],
        Full([Plain EXCEPT !.ppc = TRUE]), [Plain EXCEPT !.label = "gpt"],
        [Uefi EXCEPT !.md = TRUE], [Plain EXCEPT !.md = TRUE]}

Kept == {[r EXCEPT !.preserve = TRUE, !.disk = Left(d)] :
           r \in {Full(Plain), Full(Uefi), [Full(Uefi) EXCEPT !.drive = FALSE]},
           d \in {Full(Plain), Full(Uefi), [Full(Uefi) EXCEPT !.swap = FALSE]}}

MCPartitionRequests == New \cup Kept

Image == <<"root", "image">>
Old == <<"config", "old config">>
Images == {<<Image>>, <<<<"esp", "csv">>, Image>>, <<<<"esp", "loaders">>, Old, Image>>,
           <<<<"esp", "vfat">>, Image>>,
           <<Old, Old, Image>>, <<Image, <<"data", "image">>, <<"data", "image">>, <<"data", "image">>>>}

Drive == [Plain EXCEPT !.drive = TRUE]

MCDriveRequests ==
  {[Drive EXCEPT !.label = l, !.rebuild = r, !.disk = i] :
     l \in {"gpt", "msdos"}, r \in BOOLEAN, i \in Images}
    \cup {[Drive EXCEPT !.mode = m, !.label = "gpt", !.md = TRUE, !.disk = i] :
            m \in {"bios", "uefi"}, i \in {<<Image>>, <<<<"esp", "csv">>, Image>>}}

MCEnvironments ==
  {e \in [current : {"bios", "uefi"}, legacy : BOOLEAN, ignore : BOOLEAN,
          assets : BOOLEAN, sector : BOOLEAN] :
     /\ ~e.legacy => ~e.assets /\ ~e.sector
     /\ e.ignore => e.legacy /\ ~e.sector}

Record(n, l, m) == [num |-> n, label |-> <<l, m>>, here |-> FALSE]
MCRecords == {{Record(0, "os", 0), Record(1, "ironic1", 0), Record(2, "ironic1", 0),
               Record(3, "shim", 0), Record(4, "ironic2", 2)}}

=============================================================================
