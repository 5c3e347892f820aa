------------------------------ MODULE MCBuddy ------------------------------
(***************************************************************************)
(* A memory map with two regions: one starts and ends off a top-level      *)
(* boundary and shares its region with memory the boot loader still owns,  *)
(* the other is smaller than a top-level block.                            *)
(***************************************************************************)
EXTENDS Buddy

Entry(t, b, n) == [type |-> t, base |-> b, pages |-> n]

SmallMap == << Entry("reserved", 0, 3),
               Entry("usable", 3, 11),
               Entry("bootloader", 14, 1),
               Entry("framebuffer", 15, 1),
               Entry("executable", 16, 1),
               Entry("usable", 17, 2) >>
=============================================================================
