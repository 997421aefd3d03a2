------------------------------ MODULE MCMetricsView ------------------------------
EXTENDS MetricsView

MCOrders ==
    {<<"system", "request", "content", "addon">>,
     <<"zope_runtime", "conflict", "zodb", "request">>}

=============================================================================
