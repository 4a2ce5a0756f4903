----------------------------- MODULE MCUploads -----------------------------
EXTENDS Uploads

E(p, s) == [path |-> p, type |-> "regular", size |-> s, place |-> "inside"]
Empty   == << >>
Good    == <<E("p", 1), E("q", 2)>>
Big     == <<E("p", 1), E("q", 2), E("p", 2)>>
Link    == <<E("p", 1), [E("q", 0) EXCEPT !.type = "link"]>>
Above   == <<[E("p", 1) EXCEPT !.place = "above"]>>

Meta(k, t)  == [name |-> "metadata", kind |-> k, ttl |-> t, tar |-> NoTar]
Tar(t)      == [name |-> "project_tar", kind |-> "none", ttl |-> 0, tar |-> t]
Form(p)     == [multipart |-> TRUE, bytes |-> 3, parts |-> p]
Json(k)     == [multipart |-> FALSE, bytes |-> 1, parts |-> <<Meta(k, 1)>>]

MCRequests ==
  {Json("postgres"), Json("supabase"),
   Form(<<Meta("supabase", 1), Tar(Good)>>),
   Form(<<Tar(Link), Meta("postgres", 1), Tar(Big), Meta("supabase", 1)>>),
   Form(<<Meta("supabase", 1)>>),
   Form(<<Meta("supabase", 1), Tar(Empty)>>),
   Form(<<Meta("supabase", 1), Tar(Above)>>)}
=============================================================================
