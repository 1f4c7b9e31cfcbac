------------------------------ MODULE MCEnrich -------------------------------
(* A small instance of Enrich: a link of every site, and one without a key.   *)
EXTENDS Enrich, TLC

CONSTANTS q1, q2, w1, w2, post, clip, page, odd

WorkerOf == q1 :> w1 @@ q2 :> w2
SiteOf   == post :> "instagram" @@ clip :> "tiktok" @@ page :> "web" @@ odd :> "web"
=============================================================================
