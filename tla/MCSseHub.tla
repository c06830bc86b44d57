------------------------------ MODULE MCSseHub ------------------------------
(* Two browsers, one informer, a namespaced and a cluster-scoped package.  *)
EXTENDS SseHub

CONSTANTS c1, c2, app, db

MCUpdates == {<<app>>, <<db, app, db>>}
=============================================================================
