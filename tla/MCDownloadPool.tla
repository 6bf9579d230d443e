--------------------------- MODULE MCDownloadPool ---------------------------
(* Three files, two of which ResolveExact may reuse from disk, and two      *)
(* sources: a mirror with an unset limit (it counts as one) and the primary *)
(* -- so two workers, one of which has to take a second file.               *)
EXTENDS DownloadPool

CONSTANTS f1, f2, f3

MCFiles    == {f1, f2, f3}
MCReusable == {f1, f2}
MCLimits   == <<0, 1>>
=============================================================================
