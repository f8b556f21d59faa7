---------------------------- MODULE MCEventLoop ------------------------------
(* Small instances of EventLoop.  The control paths are interchangeable, but *)
(* the runs check liveness too, with which a symmetry set is not sound.      *)
EXTENDS EventLoop
=============================================================================
