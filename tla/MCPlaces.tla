------------------------------ MODULE MCPlaces ------------------------------
\* Places over a small area file and a small geocoder, both in the shapes of
\* the shipped file and of the tests' Photon replies: a name that is a district,
\* a block of that district and a block of another; a name in three places of
\* two states; names that only begin another, a
\* state's among them; a territory and its district of
\* one name; a village name in two countries; a town in a county of its name.
EXTENDS Places

CONSTANTS
  india, bihar, champaran, madhubani, up, barabanki, fatehpur, fatehgarh,
  kanha, kanhachatti, biharsharif, chandigarh, kenya, tanzania, nairobi, city, nakuru,
  rongai, bahati, tanga, IN_BR, IN_UP, KE, TZ,
  east, west, north, far

MCNames == {india, bihar, champaran, madhubani, up, barabanki, fatehpur,
  fatehgarh, kanha, kanhachatti, biharsharif, chandigarh, kenya, tanzania, nairobi, city,
  nakuru, rongai, bahati, tanga}
MCPoints == {east, west, north, far}
\* west and north are near each other, east and far far from all.
MCKm == [p \in MCPoints |-> [q \in MCPoints |->
           IF p = q THEN 0 ELSE IF {p, q} = {west, north} THEN 40 ELSE 900]]

row(name, aliases, within, region, point) ==
  [name |-> name, keys |-> {name} \cup aliases, within |-> within,
   region |-> region, point |-> point]
MCRows == <<
  row(madhubani, {}, <<india, bihar>>, IN_BR, east),
  row(madhubani, {}, <<india, bihar, madhubani>>, IN_BR, east),
  row(madhubani, {}, <<india, bihar, champaran>>, IN_BR, west),
  row(fatehpur, {fatehgarh}, <<india, up>>, IN_UP, north),
  row(fatehpur, {}, <<india, up, barabanki>>, IN_UP, east),
  row(fatehpur, {}, <<india, bihar, champaran>>, IN_BR, west),
  row(kanhachatti, {}, <<india, bihar>>, IN_BR, west),
  row(biharsharif, {}, <<india, bihar>>, IN_BR, west),
  row(chandigarh, {}, <<india, chandigarh>>, IN_UP, north)>>
MCKeys == <<biharsharif, chandigarh, fatehgarh, fatehpur, kanhachatti, madhubani>>
MCStarts == {<<kanha, kanhachatti>>, <<bihar, biharsharif>>}

feature(name, parts, region, point, state) ==
  [name |-> name, parts |-> parts, region |-> region, point |-> point,
   state |-> state]
MCFeatures == <<
  feature(nairobi, <<kenya, city>>, KE, far, FALSE),
  feature(nairobi, <<kenya, nakuru, rongai>>, KE, far, FALSE),
  feature(nairobi, <<kenya, nakuru, bahati>>, KE, far, FALSE),
  feature(nairobi, <<tanzania, tanga>>, TZ, far, FALSE),
  feature(nakuru, <<kenya, nakuru>>, KE, far, FALSE),
  feature(nakuru, <<kenya>>, KE, far, FALSE)>>

Alone == {<<>>, <<madhubani>>, <<fatehpur>>, <<fatehgarh>>, <<kanha>>,
  <<chandigarh>>, <<bihar>>, <<nairobi>>, <<rongai>>,
  <<madhubani, nakuru>>, <<madhubani, bihar>>, <<fatehpur, kenya>>,
  <<kanha, champaran>>}
MCSaid == {<<a>> : a \in Alone} \cup {<<a, b>> : a, b \in Alone}

here(point, area, region) == [point |-> point, area |-> area, region |-> region]
MCLocations == {here(None, None, None), here(west, None, None),
  here(far, chandigarh, None), here(None, chandigarh, None),
  here(None, fatehpur, IN_BR), here(None, bihar, IN_UP), here(None, nakuru, KE)}
=============================================================================
