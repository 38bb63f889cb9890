---------------------------- MODULE MCWritePath ----------------------------
(* Instances of WritePath for TLC. *)
EXTENDS WritePath

\* Stations at which the session is appended to or flushed.
SoundWindows == {"setup", "live", "closing", "releasing"}
EarlyWindows == {"setup", "live", "closing", "publishing"}

\* Without the release: what is left over then is the failed drain's alone.
QuietWindows == {"setup", "live", "closing"}

\* File operations that may fail, the taking of the lock among them.
CleanFaults == FileOps \union {"lease", "publish"}
=============================================================================
