--------------------------------- MODULE MCVfat ---------------------------------
(* Vfat with four names, one also in lower case, and a vendor directory.    *)
EXTENDS Vfat

MCNames == {"EFI", "UBUNTU", "BOOT", "GRUB.CFG", "grub.cfg"}
MCUpper == [n \in MCNames |-> IF n = "grub.cfg" THEN "GRUB.CFG" ELSE n]
MCPaths == {<<"EFI">>, <<"BOOT">>, <<"EFI", "BOOT">>, <<"EFI", "grub.cfg">>, <<"grub.cfg">>}
MCLoaderDirs == {<<"EFI", "BOOT">>, <<"EFI", "UBUNTU">>, <<"BOOT">>, <<"EFI">>}
================================================================================
