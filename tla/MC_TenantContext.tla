------------------------- MODULE MC_TenantContext -------------------------
(* Headers of up to four characters over the sanitiser's special           *)
(* characters and one ordinary letter: 781 headers, so every placement of  *)
(* "..", "/", "\" and blanks around a letter up to that length.            *)
EXTENDS TenantContext

MCChars == {".", "/", "\\", " ", "a"}
=============================================================================
