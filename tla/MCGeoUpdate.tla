---------------------------- MODULE MCGeoUpdate ----------------------------
(* Instances of GeoUpdate for TLC.                                         *)
EXTENDS GeoUpdate

\* Any dataset may be published.
AllDatasets == SUBSET Hosts
=============================================================================
