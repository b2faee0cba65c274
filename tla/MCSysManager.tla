---------------------------- MODULE MCSysManager ----------------------------
(***************************************************************************)
(* SysManager as it is, with the branch it lacks, and with both.           *)
(***************************************************************************)
EXTENDS SysManager

SomeModes == {{}, {"MANUAL"}, {"LOC", "ALT", "RTH"}}
ThreeBranches == {"/gps", "/keyb", "/alarm"}
ThreeConsumes == {"/gps", "/keyb", "/stat"}
AsItIs      == {<<ThreeBranches, ThreeConsumes>>}
AllVariants == AsItIs \union {<<Topics, ThreeConsumes>>, <<Topics, Topics>>}
=============================================================================
