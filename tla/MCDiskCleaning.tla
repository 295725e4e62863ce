---------------------------- MODULE MCDiskCleaning ----------------------------
\* Two disks; the second, whose commands are modelled, has a partition.
EXTENDS DiskCleaning

MCDisk == <<1, 2, 2>>

=============================================================================
