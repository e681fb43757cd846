---------------------------- MODULE MCDeployment ----------------------------
EXTENDS Deployment
CONSTANTS gia, news, top, nested

MCSeedCategories == <<gia>>
MCSeedArticles == <<[article |-> news, category |-> gia]>>
MCSections == {[child |-> nested, parent |-> top]}
=============================================================================
