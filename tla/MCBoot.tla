--------------------------------- MODULE MCBoot ---------------------------------
(* A screen of two rows of three, so that three characters wrap and a      *)
(* newline scrolls; tags of the sizes GRUB uses, not multiples of eight.   *)
(* Three keys: one may scroll the screen for the main program and two come *)
(* in the middle of its calls.                                             *)
EXTENDS Boot

Tag(type, place, size, w) == [type |-> type, at |-> place, size |-> size, width |-> w]
MCLoaders ==
  { <<Tag("cmdline", 8, 9, 0), Tag("meminfo", 24, 16, 0), Tag("end", 40, 8, 0)>>,
    <<Tag("cmdline", 8, 9, 0), Tag("framebuffer", 24, 38, 640), Tag("end", 64, 8, 0)>>,
    <<Tag("framebuffer", 8, 38, 640), Tag("meminfo", 48, 16, 0), Tag("end", 64, 8, 0)>> }
MCMessage == <<"m", "nl">>
MCKeys == {"k", "nl", "bs", "tab"}

ASSUME WidthsGiven
=============================================================================
